---- MODULE Spec2Model ----
(***************************************************************************)
(* Model of the screenshot orchestrator (ImageGrouper) of                  *)
(* problem_solver_agent: debounced grouping of incoming images, the task   *)
(* queue, the worker pool and the per-task pipeline, together with the     *)
(* files the pipeline creates in the output directory.                     *)
(***************************************************************************)
EXTENDS Integers, Sequences, FiniteSets, TLC

\* ---------------------------------------------------------------- bounds
\* Number of screenshots that arrive during one behaviour of the grouper.
MaxImages == 3
\* Number of screenshots handed to the workers during one behaviour of the pipeline.
MaxSubmitted == 2
\* The debounce duration config.GROUP_TIMEOUT counted in clock ticks.
TimeoutTicks == 2

\* Size of the worker pool (ImageGrouper.num_workers).
NumWorkers == 2
\* Wall-clock seconds 0..MaxStamp that time.strftime can return during a behaviour.
MaxStamp == 1
\* Longest answer stream, in chunks.
MaxChunks == 1
\* Number of distinct file name bodies the filename synthesis can produce.
NumNames == 1

\* --------------------------------------------------- program constants
\* _move_file_with_retry(..., retries: int = 3, ...)
MoveRetries == 3

Workers == 1..NumWorkers
Stamps == 0..MaxStamp
Images == 1..MaxImages

\* Image i is the file "<Stem(i)><Suffix(i)>": images 1 and 2 are a.png and
\* a.jpg (one stem, two extensions), image 3 is b.png, image 4 b.jpg, ...
Stem(i) == (i + 1) \div 2
Suffix(i) == i % 2

VARIABLES
    added,          \* number of add_image calls made so far (images arrive in order 1, 2, ...)
    monitored,      \* image files present in the monitored directory
    current_group,  \* ImageGrouper.current_group
    timer,          \* ImageGrouper.timer: 0 is None, i is the Timer made by the i-th add_image
    timers,         \* per Timer object: its thread's position and the group it copied
    elapsed,        \* clock ticks since the last add_image (saturates at TimeoutTicks)
    task_queue,     \* ImageGrouper.task_queue: the tasks waiting for a worker
    unfinished,     \* Queue.unfinished_tasks: put() adds one, task_done() takes one
    put_log,        \* history: every task_queue.put: the timer that made it, the ticks since
                    \*   the last add_image, and whether that timer had been cancelled
    now,            \* the wall-clock second time.strftime returns
    locks,          \* LockMarker files of the output directory: stem -> the run that created it
    outdir,         \* the other files of the output directory: path -> file object
    files,          \* file objects: what was written to each
    archive,        \* the archive directory: <<image, timestamp suffix>>
    wk,             \* per worker thread: its position and the locals of its pipeline run
    sc,             \* one call of a client function (stream_solve, _call_qwen_api,
                    \*   ask_for_analysis) and the consumer of what it returns
    tr,             \* one call of transcribe_images_raw
    fn,             \* one application of the naming and routing functions
    mv,             \* one run of the archive loop with _move_file_with_retry
    gc,             \* solver_client._clients and the threads inside get_client
    mn,             \* the run of main() examined on its own
    rt,             \* the remote trigger service examined on its own
    ty,             \* one simulate_typing call examined on its own
    fm,             \* the file monitor's event handler examined on its own
    ag,             \* one run of the aggregation script examined on its own
    mt              \* one merge_transcribed_texts call examined on its own

gvars == <<added, current_group, timer, timers, elapsed, put_log>>
pvars == <<now, locks, outdir, files, archive, wk>>
\* The grouper and the pipeline, and the functions examined on their own.
corevars == <<gvars, monitored, task_queue, unfinished, pvars>>
\* The tools examined on their own.
xvars == <<mn, rt, ty, fm, ag, mt>>
svars == <<sc, tr, fn, mv, gc>>
ovars == <<svars, xvars>>
vars == <<added, monitored, current_group, timer, timers, elapsed, task_queue, unfinished,
          put_log, now, locks, outdir, files, archive, wk, sc, tr, fn, mv, gc,
          mn, rt, ty, fm, ag, mt>>

\* ------------------------------------------------------ threading.Timer
\* st: "none"      not created yet
\*     "armed"     started, waiting for the interval to pass
\*     "cancelled" cancel() came while it was waiting: the function is never called
\*     "fired"     the interval passed, _submit_group_to_queue was called and
\*                 waits for the mutex
\*     "holding"   left the mutex with a copy of the group, before task_queue.put
\*     "done"      the callback returned
\* cancel: cancel() was called on this Timer (before or after it fired)
NoTimer == [st |-> "none", cancel |-> FALSE, group |-> <<>>]

\* Timer.cancel(): stops a Timer that is still waiting, and has no effect on
\* one whose function was already called.
CancelTimer(ts, i) ==
    IF i = 0 THEN ts
    ELSE [ts EXCEPT ![i] = [@ EXCEPT !.cancel = TRUE,
                                      !.st = IF @ = "armed" THEN "cancelled" ELSE @]]

\* Timer(config.GROUP_TIMEOUT, self._submit_group_to_queue).start()
StartTimer(ts, i) == [ts EXCEPT ![i] = [st |-> "armed", cancel |-> FALSE, group |-> <<>>]]

\* --------------------------------------------------------------- add_image
\* The whole body runs under self.lock.
add_image ==
    /\ added < MaxImages
    /\ LET i == added + 1 IN
        /\ added' = i
        /\ monitored' = monitored \cup {i}
        /\ current_group' = Append(current_group, i)
        /\ timers' = StartTimer(CancelTimer(timers, timer), i)
        /\ timer' = i
        /\ elapsed' = 0
    /\ UNCHANGED <<task_queue, unfinished, put_log, pvars, ovars>>

\* Time passes while the current Timer waits.
Tick ==
    /\ timer # 0
    /\ timers[timer].st = "armed"
    /\ elapsed < TimeoutTicks
    /\ elapsed' = elapsed + 1
    /\ UNCHANGED <<added, monitored, current_group, timer, timers, task_queue, unfinished, put_log, pvars, ovars>>

\* The Timer's interval has passed and it was not cancelled: its thread calls
\* _submit_group_to_queue, which then waits for self.lock.
TimerFire(i) ==
    /\ timers[i].st = "armed"
    /\ elapsed >= TimeoutTicks
    /\ timers' = [timers EXCEPT ![i].st = "fired"]
    /\ UNCHANGED <<added, monitored, current_group, timer, elapsed, task_queue, unfinished, put_log, pvars, ovars>>

\* Variant of the locked part that keeps a reference to the buffer instead of
\* list(self.current_group): the clear() empties the task as well.
SubmitLockedAlias(i) ==
    /\ timers[i].st = "fired"
    /\ timers' = [timers EXCEPT ![i] =
                    IF current_group = <<>>
                    THEN [@ EXCEPT !.st = "done"]
                    ELSE [@ EXCEPT !.st = "holding", !.group = <<>>]]
    /\ current_group' = <<>>
    /\ UNCHANGED <<added, monitored, timer, elapsed, task_queue, unfinished, put_log, pvars, ovars>>

\* Variant of the locked part without the test for an empty buffer.
SubmitLockedNoCheck(i) ==
    /\ timers[i].st = "fired"
    /\ timers' = [timers EXCEPT ![i] = [@ EXCEPT !.st = "holding", !.group = current_group]]
    /\ current_group' = <<>>
    /\ UNCHANGED <<added, monitored, timer, elapsed, task_queue, unfinished, put_log, pvars, ovars>>

\* Variant of the locked part that copies the buffer and does not clear it.
SubmitLockedNoClear(i) ==
    /\ timers[i].st = "fired"
    /\ timers' = [timers EXCEPT ![i] =
                    IF current_group = <<>>
                    THEN [@ EXCEPT !.st = "done"]
                    ELSE [@ EXCEPT !.st = "holding", !.group = current_group]]
    /\ UNCHANGED <<added, monitored, current_group, timer, elapsed, task_queue, unfinished,
                   put_log, pvars, ovars>>

\* _submit_group_to_queue, the part under self.lock: return on an empty
\* buffer, else copy the buffer and clear it.
SubmitLocked(i) ==
    /\ timers[i].st = "fired"
    /\ timers' = [timers EXCEPT ![i] =
                    IF current_group = <<>>
                    THEN [@ EXCEPT !.st = "done"]
                    ELSE [@ EXCEPT !.st = "holding", !.group = current_group]]
    /\ current_group' = <<>>
    /\ UNCHANGED <<added, monitored, timer, elapsed, task_queue, unfinished, put_log, pvars, ovars>>

\* _submit_group_to_queue, after the mutex is released: task_queue.put
SubmitPut(i) ==
    /\ timers[i].st = "holding"
    /\ task_queue' = Append(task_queue, timers[i].group)
    /\ put_log' = Append(put_log, [by |-> i, group |-> timers[i].group,
                                     since |-> elapsed, cancelled |-> timers[i].cancel])
    /\ unfinished' = unfinished + 1
    /\ timers' = [timers EXCEPT ![i].st = "done"]
    /\ UNCHANGED <<added, monitored, current_group, timer, elapsed, pvars, ovars>>


\* ------------------------------------------------------------ text
\* Text is a sequence of tokens: "sp" and "nl" are white space, every other
\* token is a run of visible characters.
IsSpace(t) == t \in {"sp", "nl"}

\* The literal "--- ERROR ---" that the pipeline searches the answer for.
ErrorMarker == <<"---", "sp", "ERROR", "sp", "---">>

\* stream_solve's error_generator:
\* "\n\n--- ERROR in solver_client: All retries failed for model {model}. ---\n"
SolverErrorChunk ==
    <<"nl", "nl", "---", "sp", "ERROR", "sp", "in", "sp", "solver_client:", "sp", "All",
      "sp", "retries", "sp", "failed", "sp", "for", "sp", "model", "sp", "M.", "sp", "---", "nl">>

\* _call_qwen_api's error_generator:
\* "\n\n--- ERROR in qwen_client: All retries failed. ---\n"
QwenErrorChunk ==
    <<"nl", "nl", "---", "sp", "ERROR", "sp", "in", "sp", "qwen_client:", "sp", "All",
      "sp", "retries", "sp", "failed.", "sp", "---", "nl">>

\* str.strip() leaves nothing: the text is empty or all white space.
StripEmpty(s) == \A k \in 1..Len(s) : IsSpace(s[k])

\* m in s
Contains(s, m) == \E k \in 1..(Len(s) - Len(m) + 1) : SubSeq(s, k, k + Len(m) - 1) = m

\* if not final_answer.strip() or "--- ERROR ---" in final_answer: raise ValueError
AnswerRejected(ans) == StripEmpty(ans) \/ Contains(ans, ErrorMarker)

\* "".join(chunks)
RECURSIVE Join(_)
Join(chunks) == IF chunks = <<>> THEN <<>> ELSE Head(chunks) \o Join(Tail(chunks))

\* The chunks a provider can send: visible text, white space, or text that
\* itself holds the literal "--- ERROR ---".  (Empty deltas are never yielded.)
ChunkTexts == {<<"x">>, <<"sp">>, ErrorMarker}
Streams == UNION {[1..k -> ChunkTexts] : k \in 0..MaxChunks}

\* ------------------------------------------------------------ pipeline data
\* The six labels classify_problem_type can return.
ProblemTypes == {"CODING", "VISUAL_REASONING", "QUESTION_ANSWERING", "GENERAL",
                 "MULTIPLE_CHOICE", "FILL_IN_THE_BLANKS"}

\* Composite transcripts _textualize_problem can return.
Transcripts == {<<"x">>, <<"Leet", "Code">>}
\* transcribed_text = "N/A"
NoText == <<"N/A">>

\* Text that matters for its letters is a sequence of units: "leet" and
\* "code" in three spellings, white space, and other text.
\* str.lower()
Lower(u) ==
    CASE u \in {"leet", "Leet", "LEET"} -> "leet"
      [] u \in {"code", "Code", "CODE"} -> "code"
      [] OTHER -> u
LowerText(x) == [k \in 1..Len(x) |-> Lower(x[k])]

\* "leetcode" in transcribed_text.lower()
\* The search without .lower(): only the lower-case spelling is found.
MentionsLeetcodeExact(x) == Contains(x, <<"leet", "code">>)

MentionsLeetcode(x) == Contains(LowerText(x), <<"leet", "code">>)

\* final_problem_type of _execute_pipeline
FinalType(t, x) ==
    IF t = "CODING" THEN (IF MentionsLeetcode(x) THEN "LEETCODE" ELSE "ACM") ELSE t

\* config.PROMPT_TEMPLATES.get(final_problem_type) is not None
HasTemplate(ft) == ft \in {"VISUAL_REASONING", "QUESTION_ANSWERING", "GENERAL", "LEETCODE", "ACM"}

\* What consuming the solver's stream gives: the chunks of a completed
\* stream, the one terminal error chunk after all attempts failed, or an
\* exception raised while the stream is read.
StreamResults(ft) ==
    {[kind |-> "stream", chunks |-> c] : c \in Streams}
    \cup {[kind |-> "exhausted",
           chunks |-> <<IF ft = "VISUAL_REASONING" THEN QwenErrorChunk ELSE SolverErrorChunk>>]}
    \cup {[kind |-> "raise", chunks |-> <<>>]}

Names == 1..NumNames

NoObj == <<>>
EmptyFile == [hdr |-> 0, body |-> <<>>]

\* A worker blocked in task_queue.get(), with no run.
\*   passed, skipped: the run went past the single-flight check, or returned at it
\*   calls: the client calls the run has made
\*   exc: the statement whose exception is propagating out of _execute_pipeline
\*   sols, fails: final solution files and failure records this run has created
\*   failed_moves: images whose move was given up after the last attempt
Idle == [pc |-> "get", task |-> <<>>, ts |-> 0, ftype |-> "", text |-> NoText,
         fpath |-> <<>>, fh |-> NoObj, idx |-> 0, tries |-> 0, exc |-> "none",
         passed |-> FALSE, skipped |-> FALSE, calls |-> {}, sols |-> 0, fails |-> 0,
         failed_moves |-> {}]

Run(w) == wk[w].task[1]
\* lock_file_path = SOLUTION_DIR / f".{group_to_process[0].stem}.lock"
LockPath(w) == Stem(Run(w))
\* temp_solution_path = SOLUTION_DIR / f"{timestamp}_{group_to_process[0].stem}_inprogress.md"
TmpPath(w) == <<"tmp", wk[w].ts, Stem(Run(w))>>
\* failure_path = SOLUTION_DIR / f"{timestamp}_{group[0].stem}_FAILED.md"
FailPath(w, t) == <<"fail", t, Stem(Run(w))>>
\* final_filename = f"{timestamp}_{sanitize_filename(filename_body)}.md"
FinalPath(w, b) == <<"final", wk[w].ts, b>>

Range(f) == {f[x] : x \in DOMAIN f}
Drop(f, x) == [y \in DOMAIN f \ {x} |-> f[y]]
\* The file objects still reachable: by a path, or by an open handle.
Reachable(fs, od, w2) == [o \in (DOMAIN fs) \cap (Range(od) \cup {w2[w].fh : w \in Workers}) |-> fs[o]]

\* Another thread holds an open handle on the file object.
OpenElsewhere(obj, w) == \E v \in Workers \ {w} : wk[v].fh = obj

\* open(path, 'w'): the object the path names, created if there is none.
Opened(path, fresh) == IF path \in DOMAIN outdir THEN outdir[path] ELSE fresh

\* ------------------------------------------------------------ producer
\* What the grouper does for the workers, in one step: the next n screenshots
\* appear in the monitored directory, add_image takes each into the pending
\* buffer, and _submit_group_to_queue puts the buffer on the queue as one task.
\* (SpecG follows the grouper step by step; here only the task it hands over
\* is of interest.)
SubmitGroup(n) ==
    /\ added + n <= MaxSubmitted
    /\ added + n <= MaxImages
    /\ LET group == [k \in 1..n |-> added + k] IN
        /\ monitored' = monitored \cup {added + k : k \in 1..n}
        /\ task_queue' = Append(task_queue, group)
        /\ unfinished' = unfinished + 1
        /\ added' = added + n
    /\ UNCHANGED <<current_group, timer, timers, elapsed, put_log, pvars, ovars>>

\* ------------------------------------------------------------ worker loop
\* group_to_process = self.task_queue.get(), then the first lines of
\* _execute_pipeline: the paths and the timestamp of the run.
Dequeue(w) ==
    /\ wk[w].pc = "get"
    /\ task_queue # <<>>
    /\ task_queue' = Tail(task_queue)
    /\ wk' = [wk EXCEPT ![w] = [Idle EXCEPT !.pc = "check", !.task = Head(task_queue), !.ts = now]]
    /\ UNCHANGED <<gvars, monitored, unfinished, now, locks, outdir, files, archive, ovars>>

\* Variant of the loop without its except clause: an exception of the
\* pipeline ends the worker thread.
WorkerResumeNoExcept(raised) == IF raised THEN "dead" ELSE "get"

\* Where the worker goes after task_done(): the except clause of the loop has
\* swallowed whatever the pipeline raised, so it asks for the next task.
WorkerResume(raised) == "get"

\* finally: self.task_queue.task_done(), and the next turn of the loop.
TaskDone(w) ==
    /\ wk[w].pc = "task_done"
    /\ unfinished' = unfinished - 1
    /\ wk' = [wk EXCEPT ![w] = [Idle EXCEPT !.pc = WorkerResume(wk[w].exc # "none")]]
    /\ UNCHANGED <<gvars, monitored, task_queue, now, locks, outdir, files, archive, ovars>>

\* ------------------------------------------------------------ _execute_pipeline
\* Variant with the check inside the try block: the return runs the finally
\* clause, which removes the marker and archives the images.
AfterLockCheckInTry(exists) == IF exists THEN "lock_check" ELSE "touch"

\* Where the run goes when lock_file_path.exists() is evaluated.
AfterLockCheck(exists) == IF exists THEN "task_done" ELSE "touch"

\* if lock_file_path.exists(): return
CheckLock(w) ==
    /\ wk[w].pc = "check"
    /\ LET nxt == AfterLockCheck(LockPath(w) \in DOMAIN locks) IN
        wk' = [wk EXCEPT ![w] = [@ EXCEPT !.pc = nxt,
                                           !.skipped = (nxt = "task_done"),
                                           !.passed = (nxt # "task_done")]]
    /\ UNCHANGED <<gvars, monitored, task_queue, unfinished, now, locks, outdir, files, archive, ovars>>

\* lock_file_path.touch()
TouchLock(w) ==
    /\ wk[w].pc = "touch"
    /\ locks' = IF LockPath(w) \in DOMAIN locks THEN locks ELSE (LockPath(w) :> Run(w)) @@ locks
    /\ wk' = [wk EXCEPT ![w].pc = "prepare"]
    /\ UNCHANGED <<gvars, monitored, task_queue, unfinished, now, outdir, files, archive, ovars>>

\* What _textualize_problem comes to: raw_transcriptions was empty, the merge
\* gave nothing usable, or the polished text is returned.
TextualizeOutcomes ==
    {[kind |-> k, text |-> NoText] : k \in {"no transcription", "no merge"}}
    \cup {[kind |-> "text", text |-> x] : x \in Transcripts}

\* The client calls made by the end of _textualize_problem: the classifier,
\* transcribe_images_raw and, when there were transcriptions, the merge.
CallsOfTextualize(kind) ==
    IF kind = "no transcription" THEN {"classify", "transcribe"}
    ELSE {"classify", "transcribe", "merge"}

\* Steps 1 and 2 (classify_problem_type, _textualize_problem), then the start of
\* step 3: open the provisional file, choose the solver and the template,
\* write the header and ask the solver for its stream.
\*   _textualize_problem raises, before the provisional file is opened, when
\*   transcribe_images_raw returns nothing ("no transcription"), and after
\*   the merge call when ask_for_analysis returns nothing or the text is
\*   too short ("no merge").
Prepare(w) ==
    /\ wk[w].pc = "prepare"
    /\ \E t \in ProblemTypes, r \in TextualizeOutcomes :
        LET me == wk[w]
            x == r.text
            ft == FinalType(t, x)
            obj == Opened(TmpPath(w), <<"sol", Run(w)>>)
            made == CallsOfTextualize(r.kind)
        IN  IF r.kind # "text"
            THEN /\ wk' = [wk EXCEPT ![w] = [me EXCEPT !.pc = "fail", !.calls = made]]
                 /\ UNCHANGED <<outdir, files>>
            ELSE /\ outdir' = (TmpPath(w) :> obj) @@ outdir
                 /\ IF HasTemplate(ft)
                    THEN /\ files' = (obj :> [hdr |-> Run(w), body |-> <<>>]) @@ files
                         /\ wk' = [wk EXCEPT ![w] = [me EXCEPT !.pc = "solve", !.text = x,
                                        !.ftype = ft, !.fh = obj, !.calls = made \cup {"solve"}]]
                    ELSE \* raise ValueError: the file was opened and is closed empty
                         /\ files' = (obj :> EmptyFile) @@ files
                         /\ wk' = [wk EXCEPT ![w] = [me EXCEPT !.pc = "fail", !.text = x, !.calls = made]]
    /\ UNCHANGED <<gvars, monitored, task_queue, unfinished, now, locks, archive, ovars>>

\* The rest of step 3 and the local part of step 4: read the whole stream,
\* write the answer to the provisional file and close it, validate the
\* answer, and synthesize the final name.
SolveWrite(w) ==
    /\ wk[w].pc = "solve"
    /\ \E res \in StreamResults(wk[w].ftype), b \in Names :
        LET me == wk[w]
            ans == Join(res.chunks)
            closed == [me EXCEPT !.fh = NoObj, !.ftype = ""]
            written == IF res.kind = "raise" THEN files
                       ELSE [files EXCEPT ![me.fh].body = Append(@, [by |-> Run(w), ans |-> ans])]
            nxt == IF res.kind = "raise" \/ AnswerRejected(ans)
                   THEN [closed EXCEPT !.pc = "fail"]
                   ELSE [closed EXCEPT !.pc = "rename", !.fpath = FinalPath(w, b),
                                        !.calls = @ \cup {"filename"}]
        IN  /\ wk' = [wk EXCEPT ![w] = nxt]
            /\ files' = Reachable(written, outdir, wk')
    /\ UNCHANGED <<gvars, monitored, task_queue, unfinished, now, locks, outdir, archive, ovars>>

\* Variant of the rename whose failure is swallowed: no FailureRecord follows.
RenameSwallowed(w) ==
    /\ wk[w].pc = "rename"
    /\ LET me == wk[w]
           src == TmpPath(w)
           dst == me.fpath
       IN \E posix \in BOOLEAN :
           IF src \in DOMAIN outdir
              /\ (posix \/ (dst \notin DOMAIN outdir /\ ~OpenElsewhere(outdir[src], w)))
           THEN /\ outdir' = (dst :> outdir[src]) @@ Drop(outdir, src)
                /\ wk' = [wk EXCEPT ![w] = [me EXCEPT !.pc = "lock_check", !.sols = @ + 1,
                                                         !.fpath = <<>>, !.text = NoText]]
                /\ files' = Reachable(files, outdir', wk')
           ELSE /\ wk' = [wk EXCEPT ![w] = [me EXCEPT !.pc = "lock_check", !.fpath = <<>>, !.text = NoText]]
                /\ UNCHANGED <<outdir, files>>
    /\ UNCHANGED <<gvars, monitored, task_queue, unfinished, now, locks, archive, ovars>>

\* temp_solution_path.rename(final_solution_path)
\*   FileNotFoundError when the provisional path is gone.  On POSIX the
\*   rename replaces an existing final path; on Windows it raises
\*   FileExistsError when the final path exists and PermissionError while
\*   another thread has the provisional file open.
Rename(w) ==
    /\ wk[w].pc = "rename"
    /\ LET me == wk[w]
           src == TmpPath(w)
           dst == me.fpath
       IN \E posix \in BOOLEAN :
           IF src \in DOMAIN outdir
              /\ (posix \/ (dst \notin DOMAIN outdir /\ ~OpenElsewhere(outdir[src], w)))
           THEN /\ outdir' = (dst :> outdir[src]) @@ Drop(outdir, src)
                /\ wk' = [wk EXCEPT ![w] = [me EXCEPT !.pc = "lock_check", !.sols = @ + 1,
                                                         !.fpath = <<>>, !.text = NoText]]
                /\ files' = Reachable(files, outdir', wk')
           ELSE /\ wk' = [wk EXCEPT ![w] = [me EXCEPT !.pc = "fail", !.fpath = <<>>]]
                /\ UNCHANGED <<outdir, files>>
    /\ UNCHANGED <<gvars, monitored, task_queue, unfinished, now, locks, archive, ovars>>

\* except Exception: self._write_failure_log(...), first half: the failure
\* path is opened for writing under the timestamp of this moment.
FailOpen(w) ==
    /\ wk[w].pc = "fail"
    /\ LET path == FailPath(w, now)
           obj == Opened(path, <<"fail", Run(w)>>)
       IN /\ outdir' = (path :> obj) @@ outdir
          /\ files' = (obj :> EmptyFile) @@ files
          /\ wk' = [wk EXCEPT ![w] = [@ EXCEPT !.pc = "fail_fill", !.fh = obj, !.fails = @ + 1]]
    /\ UNCHANGED <<gvars, monitored, task_queue, unfinished, now, locks, archive, ovars>>

\* _write_failure_log, second half: the four writes and the close.
FailFill(w) ==
    /\ wk[w].pc = "fail_fill"
    /\ LET me == wk[w] IN
        /\ wk' = [wk EXCEPT ![w] = [me EXCEPT !.pc = "tmp_check", !.fh = NoObj, !.text = NoText]]
        /\ files' = Reachable([files EXCEPT ![me.fh] =
                                 [hdr |-> Run(w), body |-> <<[by |-> Run(w), ans |-> me.text]>>]],
                              outdir, wk')
    /\ UNCHANGED <<gvars, monitored, task_queue, unfinished, now, locks, outdir, archive, ovars>>

\* if temp_solution_path.exists(): ...
TmpCheck(w) ==
    /\ wk[w].pc = "tmp_check"
    /\ wk' = [wk EXCEPT ![w].pc = IF TmpPath(w) \in DOMAIN outdir THEN "tmp_unlink" ELSE "lock_check"]
    /\ UNCHANGED <<gvars, monitored, task_queue, unfinished, now, locks, outdir, files, archive, ovars>>

\* ... temp_solution_path.unlink()
\*   FileNotFoundError when the path went away since the check, or (Windows)
\*   PermissionError while another thread has the file open: it is raised
\*   inside the except clause, so the finally clause runs and it propagates.
TmpUnlink(w) ==
    /\ wk[w].pc = "tmp_unlink"
    /\ \E posix \in BOOLEAN :
       IF TmpPath(w) \in DOMAIN outdir /\ (posix \/ ~OpenElsewhere(outdir[TmpPath(w)], w))
       THEN /\ outdir' = Drop(outdir, TmpPath(w))
            /\ wk' = [wk EXCEPT ![w].pc = "lock_check"]
            /\ files' = Reachable(files, outdir', wk')
       ELSE /\ wk' = [wk EXCEPT ![w] = [@ EXCEPT !.pc = "lock_check", !.exc = "tmp_unlink"]]
            /\ UNCHANGED <<outdir, files>>
    /\ UNCHANGED <<gvars, monitored, task_queue, unfinished, now, locks, archive, ovars>>

\* Variant that removes the marker only at the end of the try block: a
\* failed run keeps it.
LockCheckOnSuccess(w) ==
    /\ wk[w].pc = "lock_check"
    /\ wk' = [wk EXCEPT ![w] = [@ EXCEPT !.pc = IF LockPath(w) \in DOMAIN locks /\ wk[w].sols > 0
                                               THEN "lock_unlink" ELSE "archive",
                                         !.idx = 1]]
    /\ UNCHANGED <<gvars, monitored, task_queue, unfinished, now, locks, outdir, files, archive, ovars>>

\* finally: if lock_file_path.exists(): ...
LockCheck(w) ==
    /\ wk[w].pc = "lock_check"
    /\ wk' = [wk EXCEPT ![w] = [@ EXCEPT !.pc = IF LockPath(w) \in DOMAIN locks
                                               THEN "lock_unlink" ELSE "archive",
                                         !.idx = 1]]
    /\ UNCHANGED <<gvars, monitored, task_queue, unfinished, now, locks, outdir, files, archive, ovars>>

\* ... lock_file_path.unlink()
\*   FileNotFoundError when the marker went away since the check: raised in
\*   the finally clause, it ends the run before the archive loop.
LockUnlink(w) ==
    /\ wk[w].pc = "lock_unlink"
    /\ IF LockPath(w) \in DOMAIN locks
       THEN /\ locks' = Drop(locks, LockPath(w))
            /\ wk' = [wk EXCEPT ![w].pc = "archive"]
       ELSE /\ wk' = [wk EXCEPT ![w] = [@ EXCEPT !.pc = "task_done", !.exc = "lock_unlink"]]
            /\ UNCHANGED locks
    /\ UNCHANGED <<gvars, monitored, task_queue, unfinished, now, outdir, files, archive, ovars>>

\* The position after the archive loop is done with image number k of the task.
NextImage(me, k) ==
    IF k >= Len(me.task) THEN [me EXCEPT !.pc = "task_done", !.idx = 0, !.tries = 0]
    ELSE [me EXCEPT !.idx = k + 1, !.tries = 0]

\* The result of one failed shutil.move: sleep and retry until the attempts
\* are used up, then give the image up.
MoveFailed(me) ==
    IF me.tries + 1 < MoveRetries THEN [me EXCEPT !.tries = @ + 1]
    ELSE NextImage([me EXCEPT !.failed_moves = @ \cup {me.task[me.idx]}], me.idx)

\* for img_path in group_to_process: if img_path.exists():
\*     self._move_file_with_retry(img_path, destination)
\* One step is the exists() test of a missing image, or one shutil.move of
\* _move_file_with_retry; the move fails while the file is locked by another
\* program.
Archive(w) ==
    /\ wk[w].pc = "archive"
    /\ LET me == wk[w]
           img == me.task[me.idx]
       IN IF img \notin monitored
          THEN /\ wk' = [wk EXCEPT ![w] = NextImage(me, me.idx)]
               /\ UNCHANGED <<monitored, archive>>
          ELSE \E moved \in BOOLEAN :
               IF moved
               THEN /\ monitored' = monitored \ {img}
                    /\ archive' = archive \cup {<<img, me.ts>>}
                    /\ wk' = [wk EXCEPT ![w] = NextImage(me, me.idx)]
               ELSE /\ wk' = [wk EXCEPT ![w] = MoveFailed(me)]
                    /\ UNCHANGED <<monitored, archive>>
    /\ UNCHANGED <<gvars, task_queue, unfinished, now, locks, outdir, files, ovars>>

\* A second of wall-clock time passes.
ClockTick ==
    /\ now < MaxStamp
    /\ now' = now + 1
    /\ UNCHANGED <<gvars, monitored, task_queue, unfinished, locks, outdir, files, archive, wk, ovars>>

\* ------------------------------------------------------------ specification
InitCore ==
    /\ added = 0
    /\ monitored = {}
    /\ current_group = <<>>
    /\ timer = 0
    /\ timers = [i \in Images |-> NoTimer]
    /\ elapsed = 0
    /\ task_queue = <<>>
    /\ unfinished = 0
    /\ put_log = <<>>
    /\ now = 0
    /\ locks = <<>>
    /\ outdir = <<>>
    /\ files = <<>>
    /\ archive = {}
    /\ wk = [w \in Workers |-> Idle]

\* The grouper and the pipeline start as constructed; no function is examined
\* on its own.
Init ==
    /\ InitCore
    /\ sc = <<>> /\ tr = <<>> /\ fn = <<>> /\ mv = <<>> /\ gc = <<>>
    /\ mn = <<>> /\ rt = <<>> /\ ty = <<>> /\ fm = <<>> /\ ag = <<>> /\ mt = <<>>

NextG ==
    \/ add_image
    \/ Tick
    \/ \E i \in Images : TimerFire(i)
    \/ \E i \in Images : SubmitLocked(i)
    \/ \E i \in Images : SubmitPut(i)

NextP ==
    \/ \E n \in 1..MaxImages : SubmitGroup(n)
    \/ ClockTick
    \/ \E w \in Workers :
        \/ Dequeue(w)
        \/ CheckLock(w)
        \/ TouchLock(w)
        \/ Prepare(w)
        \/ SolveWrite(w)
        \/ Rename(w)
        \/ FailOpen(w)
        \/ FailFill(w)
        \/ TmpCheck(w)
        \/ TmpUnlink(w)
        \/ LockCheck(w)
        \/ LockUnlink(w)
        \/ Archive(w)
        \/ TaskDone(w)

SpecG == Init /\ [][NextG]_vars
Spec == Init /\ [][NextP]_vars

\* ------------------------------------------------------------ properties
TaskPcs == {"get", "check", "touch", "prepare", "solve", "rename", "fail", "fail_fill",
            "tmp_check", "tmp_unlink", "lock_check", "lock_unlink", "archive", "task_done"}

\* A run past the single-flight check that has not reached the cleanup step.
Active(w) == wk[w].pc \in {"touch", "prepare", "solve", "rename", "fail", "fail_fill",
                           "tmp_check", "tmp_unlink"}
\* A run between the single-flight check and its return.
Running(w) == wk[w].pc \in TaskPcs \ {"get", "check", "task_done"}

IsFinal(p) == p[1] = "final"
IsFailure(p) == p[1] = "fail"

\* C1: a task is put on the queue only when no add_image call came during the
\* full debounce duration before the put, and never by a Timer that add_image
\* had cancelled.
C1_PushOnlyAfterQuiet ==
    \A k \in 1..Len(put_log) :
        put_log[k].since >= TimeoutTicks /\ ~put_log[k].cancelled

\* C2: no two runs whose tasks have the same first-image stem are active at
\* the same time.
C2_SingleFlight ==
    \A v, w \in Workers :
        (v # w /\ Active(v) /\ Active(w)) => LockPath(v) # LockPath(w)

\* C3: when the run of a task has ended, whether it succeeded,
\* failed or returned at the single-flight check, none of the task's images
\* is left in the monitored directory.
C3_EveryTakenTaskArchived ==
    \A w \in Workers :
        wk[w].pc = "task_done" => \A k \in 1..Len(wk[w].task) : wk[w].task[k] \notin monitored

\* C4: no file under a final name holds an answer that is the solver's
\* terminal error chunk: such a run ends as a failure.
C4_ErrorStreamIsFailure ==
    \A p \in DOMAIN outdir :
        IsFinal(p) => \A k \in 1..Len(files[outdir[p]].body) :
                        files[outdir[p]].body[k].ans \notin {SolverErrorChunk, QwenErrorChunk}

\* C5: a file under a final name holds the header and the whole validated
\* answer of one run, and nothing is still writing to it.
C5_FinalFilesComplete ==
    \A p \in DOMAIN outdir :
        IsFinal(p) =>
            LET f == files[outdir[p]] IN
                /\ f.hdr # 0
                /\ Len(f.body) = 1
                /\ f.body[1].by = f.hdr
                /\ ~AnswerRejected(f.body[1].ans)
                /\ \A w \in Workers : wk[w].fh # outdir[p]

\* C6: no worker ever leaves its loop, and every task taken from the queue is
\* marked done exactly once: the queue's count of unfinished tasks is the
\* number of tasks waiting plus the number of workers holding one.
C6_WorkersSurvive ==
    /\ \A w \in Workers : wk[w].pc \in TaskPcs
    /\ unfinished = Len(task_queue) + Cardinality({w \in Workers : wk[w].pc # "get"})

\* A run has raised out of _execute_pipeline and its worker is in the finally
\* clause of the loop.
C6_Witness == \E w \in Workers : wk[w].pc = "task_done" /\ wk[w].exc # "none"

\* C7: when the LockMarker exists at the single-flight check, the invocation
\* returns at once: no client was called, no file of the output directory and
\* no image is touched, and the marker stays.
C7_SkipIsNoOp ==
    [][\A w \in Workers :
          (wk[w].pc = "check" /\ LockPath(w) \in DOMAIN locks /\ wk'[w] # wk[w])
            => /\ wk'[w].pc = "task_done"
               /\ wk'[w].calls = {} /\ wk'[w].sols = 0 /\ wk'[w].fails = 0
               /\ UNCHANGED <<locks, outdir, files, monitored, archive>>]_vars

\* A run has returned at the single-flight check while the marker is in place.
C7_Witness ==
    \E w \in Workers : wk[w].pc = "task_done" /\ wk[w].skipped /\ LockPath(w) \in DOMAIN locks

\* C8: when each of the first n add_image calls after the first came while
\* the Timer of the call before was still waiting, at most one task is put
\* for them, by the Timer of the last call, holding images 1..n in arrival
\* order; and it has been put once that Timer's callback has returned.
C8_OneTaskForQuietBurst ==
    (added >= 1 /\ \A i \in 1..(added - 1) : timers[i].st = "cancelled")
        => /\ Len(put_log) <= 1
           /\ \A k \in 1..Len(put_log) :
                put_log[k].by = added /\ put_log[k].group = [j \in 1..added |-> j]
           /\ timers[added].st = "done" => Len(put_log) = 1

\* Three images came in one burst and their one task has been put.
C8_Witness ==
    /\ added = 3
    /\ \A i \in 1..2 : timers[i].st = "cancelled"
    /\ Len(put_log) = 1 /\ put_log[1].group = <<1, 2, 3>>

C10_NoMarkerLeft ==
    /\ \A w \in Workers :
        wk[w].pc = "task_done" => \A s \in DOMAIN locks : locks[s] # Run(w)
    /\ (\A w \in Workers : ~Running(w)) => locks = <<>>

\* A run that created its marker has ended after a failure, and no marker is left.
C10_Witness ==
    \E w \in Workers :
        /\ wk[w].pc = "task_done" /\ wk[w].passed /\ wk[w].fails = 1
        /\ \A v \in Workers : ~Running(v)
        /\ locks = <<>>

\* ------------------------------------------------------------ client calls
\* One call of stream_solve, ask_for_analysis or _call_qwen_api, with the
\* provider's behaviour at each request chosen freely, followed by what the
\* caller does with the value returned.

\* config.MAX_RETRIES
MAX_RETRIES == 3
\* The retry counts a configuration can set for the call examined.
RetryCounts == 0..MAX_RETRIES
\* Longest provider stream examined, in deltas.
MaxDeltas == 2

RECURSIVE LStrip(_)
LStrip(s) == IF s # <<>> /\ IsSpace(Head(s)) THEN LStrip(Tail(s)) ELSE s
RECURSIVE RStrip(_)
RStrip(s) == IF s # <<>> /\ IsSpace(s[Len(s)]) THEN RStrip(SubSeq(s, 1, Len(s) - 1)) ELSE s
\* str.strip()
Strip(s) == RStrip(LStrip(s))

ClientFns == {"stream_solve", "ask_for_analysis", "_call_qwen_api"}

\* What client.chat.completions.create does at one request: it returns, it
\* raises APIConnectionError or APITimeoutError, or it raises something else
\* (get_client's ValueError included, which is raised inside the same try).
CreateOutcomes == {"ok", "network", "other"}

\* A streamed completion: the content of each delta (<<>> is a delta without
\* content), and whether iterating it raises after the last of them.
Deltas == {<<"x">>, <<>>}
Completions ==
    {[deltas |-> d, fails |-> f] :
        d \in UNION {[1..k -> Deltas] : k \in 0..MaxDeltas}, f \in BOOLEAN}

\* The content of a non-streamed reply: text with or without white space
\* around it, a label of the classifier alone, padded, in lower case or
\* followed by more text.
ReplyContents ==
    {<<>>, <<"sp">>, <<"x">>, <<"sp", "x", "nl">>, <<"coding">>, <<"CODING", "sp", "x">>}
    \cup {<<l>> : l \in ProblemTypes}
    \cup {<<"nl", l, "sp">> : l \in {"CODING", "GENERAL"}}
\* A non-streamed reply: choices may be empty, message.content may be None.
Replies ==
    {[choices |-> TRUE, null |-> FALSE, content |-> c] : c \in ReplyContents}
    \cup {[choices |-> TRUE, null |-> TRUE, content |-> <<>>],
          [choices |-> FALSE, null |-> TRUE, content |-> <<>>]}
NoReply == [choices |-> FALSE, null |-> TRUE, content |-> <<>>]

\* Values a client function returns.
Pending == [kind |-> "pending", chunks |-> <<>>, fails |-> FALSE]
Absent == [kind |-> "none", chunks |-> <<>>, fails |-> FALSE]
TextResult(t) == [kind |-> "text", chunks |-> <<t>>, fails |-> FALSE]
\* stream_generator(): yields the content of every delta that has one
StreamGenerator(comp) == [kind |-> "generator", chunks |-> comp.deltas, fails |-> comp.fails]
\* error_generator(): yields the one terminal error chunk
ErrorGenerator(chunk) == [kind |-> "generator", chunks |-> <<chunk>>, fails |-> FALSE]

\* A call about to make its first request.
\*   n: config.MAX_RETRIES of the run;  client: qwen_client was initialised
\*   attempt: the loop variable;  attempts, sleeps: requests made, time.sleep calls
\*   log: the outcome of each request;  reply: the reply of the request that returned
\*   ret: the value returned;  got, cpc: what the consumer of a stream received
\*   label: what classify_problem_type made of the value returned
NewCall(f, st, n, cl) ==
    [fn |-> f, stream |-> st, n |-> n, client |-> cl, pc |-> "try", attempt |-> 0,
     attempts |-> 0, sleeps |-> 0, log |-> <<>>, reply |-> NoReply, ret |-> Pending,
     idx |-> 0, got |-> <<>>, cpc |-> "waiting", label |-> ""]

Returned(c, r) == [c EXCEPT !.pc = "returned", !.ret = r]

\* Variant that sleeps after the last attempt as well.
ShouldRetryOnLast(attempt, n) == attempt <= n

\* if attempt < config.MAX_RETRIES: ... time.sleep(config.RETRY_DELAY)
ShouldRetry(attempt, n) == attempt < n

\* Variant that treats every exception as a network error.
RetryableAny(out) == out # "ok"

\* except (APIConnectionError, APITimeoutError): the errors that are retried;
\* everything else is caught by except Exception, which leaves the loop.
Retryable(out) == out = "network"

\* One turn of a retry loop whose request raised: sleep and go round when
\* ShouldRetry, else leave the loop with the value `failed`.  (A loop whose
\* range is used up after the sleep ends the same way.)
AfterError(c, out, failed) ==
    LET tried == [c EXCEPT !.attempts = @ + 1, !.log = Append(@, out)] IN
    IF Retryable(out) /\ ShouldRetry(c.attempt, c.n)
    THEN LET slept == [tried EXCEPT !.sleeps = @ + 1, !.attempt = @ + 1] IN
         IF slept.attempt <= c.n THEN slept ELSE Returned(slept, failed)
    ELSE Returned(tried, failed)

AfterReturn(c, reply, r) ==
    Returned([c EXCEPT !.attempts = @ + 1, !.log = Append(@, "ok"), !.reply = reply], r)

\* return error_generator(), after the loop of stream_solve
SolverFailed == ErrorGenerator(SolverErrorChunk)

\* stream_solve: one turn of its loop.
stream_solve ==
    /\ sc.fn = "stream_solve" /\ sc.pc = "try"
    /\ \E out \in CreateOutcomes :
        IF out = "ok"
        THEN \E comp \in Completions : sc' = AfterReturn(sc, NoReply, StreamGenerator(comp))
        ELSE sc' = AfterError(sc, out, SolverFailed)
    /\ UNCHANGED <<corevars, tr, fn, mv, gc, xvars>>

\* Variant that hands an empty content on as text.
AskResultEmptyText(reply) ==
    IF reply.choices /\ ~reply.null
    THEN TextResult(Strip(reply.content))
    ELSE Absent

\* What ask_for_analysis returns for a reply:
\* if response and response.choices and response.choices[0].message.content:
\*     return response.choices[0].message.content.strip()
\* else: return None
AskResult(reply) ==
    IF reply.choices /\ ~reply.null /\ reply.content # <<>>
    THEN TextResult(Strip(reply.content))
    ELSE Absent

\* ask_for_analysis: one turn of its loop.
ask_for_analysis ==
    /\ sc.fn = "ask_for_analysis" /\ sc.pc = "try"
    /\ \E out \in CreateOutcomes :
        IF out = "ok"
        THEN \E reply \in Replies : sc' = AfterReturn(sc, reply, AskResult(reply))
        ELSE sc' = AfterError(sc, out, Absent)
    /\ UNCHANGED <<corevars, tr, fn, mv, gc, xvars>>

\* The end of _call_qwen_api after its loop:
\* if stream: return error_generator() else: return None
QwenFailed(stream) == IF stream THEN ErrorGenerator(QwenErrorChunk) ELSE Absent

\* What _call_qwen_api returns for a non-streamed reply:
\* completion.choices[0].message.content.strip() if ...content else None;
\* the IndexError of an empty choices list is caught and ends the loop.
QwenResult(reply) ==
    IF ~reply.choices THEN QwenFailed(FALSE)
    ELSE IF reply.null \/ reply.content = <<>> THEN Absent
    ELSE TextResult(Strip(reply.content))

\* _call_qwen_api: the test of qwen_client, then one turn of its loop.
call_qwen_api ==
    /\ sc.fn = "_call_qwen_api" /\ sc.pc = "try"
    /\ IF ~sc.client
       THEN sc' = Returned(sc, Absent)
       ELSE \E out \in CreateOutcomes :
            IF out = "ok"
            THEN IF sc.stream
                 THEN \E comp \in Completions : sc' = AfterReturn(sc, NoReply, StreamGenerator(comp))
                 ELSE \E reply \in Replies : sc' = AfterReturn(sc, reply, QwenResult(reply))
            ELSE sc' = AfterError(sc, out, QwenFailed(sc.stream))
    /\ UNCHANGED <<corevars, tr, fn, mv, gc, xvars>>

\* final_answer_chunks = [chunk for chunk in response_stream]: the caller
\* asks the returned value for its next chunk.  Iterating None raises
\* TypeError; stream_generator skips the deltas without content, and whatever
\* the provider's iterator raises goes through it to the caller.
ConsumeStream ==
    /\ sc.pc = "returned" /\ sc.stream /\ sc.cpc \in {"waiting", "reading"}
    /\ IF sc.ret.kind = "none"
       THEN sc' = [sc EXCEPT !.cpc = "raised"]
       ELSE IF sc.idx < Len(sc.ret.chunks)
       THEN LET chunk == sc.ret.chunks[sc.idx + 1] IN
            sc' = [sc EXCEPT !.cpc = "reading", !.idx = @ + 1,
                             !.got = IF chunk = <<>> THEN @ ELSE Append(@, chunk)]
       ELSE sc' = [sc EXCEPT !.cpc = IF sc.ret.fails THEN "raised" ELSE "ended"]
    /\ UNCHANGED <<corevars, tr, fn, mv, gc, xvars>>

\* Variant without the test against valid_types.
ClassifyLabelUnchecked(ret) == IF ret.kind = "text" THEN ret.chunks[1][1] ELSE "GENERAL"

\* if isinstance(response, str) and response in valid_types: return response
\* return "GENERAL"
ClassifyLabel(ret) ==
    IF ret.kind = "text" /\ \E l \in ProblemTypes : ret.chunks[1] = <<l>>
    THEN ret.chunks[1][1]
    ELSE "GENERAL"

\* classify_problem_type, after its _call_qwen_api(..., stream=False) returned.
classify_problem_type ==
    /\ sc.fn = "_call_qwen_api" /\ ~sc.stream /\ sc.pc = "returned" /\ sc.label = ""
    /\ sc' = [sc EXCEPT !.label = ClassifyLabel(sc.ret)]
    /\ UNCHANGED <<corevars, tr, fn, mv, gc, xvars>>

InitS ==
    /\ InitCore
    /\ sc \in {NewCall(f, st, n, cl) :
                f \in ClientFns, st \in BOOLEAN, n \in RetryCounts, cl \in BOOLEAN}
    /\ sc.fn = "stream_solve" => sc.stream /\ sc.client
    /\ sc.fn = "ask_for_analysis" => ~sc.stream /\ sc.client
    /\ tr = <<>> /\ fn = <<>> /\ mv = <<>> /\ gc = <<>>
    /\ mn = <<>> /\ rt = <<>> /\ ty = <<>> /\ fm = <<>> /\ ag = <<>> /\ mt = <<>>

NextS ==
    \/ stream_solve
    \/ ask_for_analysis
    \/ call_qwen_api
    \/ ConsumeStream
    \/ classify_problem_type

SpecS == InitS /\ [][NextS]_vars

\* The call has been given up: no request returned.
GaveUp == sc.pc = "returned" /\ (sc.log = <<>> \/ sc.log[Len(sc.log)] # "ok")
AllNetworkErrors == \A k \in 1..Len(sc.log) : sc.log[k] = "network"
\* The reply of the request that returned has content.
HasContent == sc.log # <<>> /\ sc.log[Len(sc.log)] = "ok"
              /\ sc.reply.choices /\ ~sc.reply.null /\ sc.reply.content # <<>>
TerminalChunk == IF sc.fn = "stream_solve" THEN SolverErrorChunk ELSE QwenErrorChunk

\* C11: the consumer of the stream that stream_solve or
\* solve_visual_reasoning_problem returned never sees an exception: after
\* any failure it receives the one terminal error chunk and then the normal
\* end of the stream.
C11_StreamNeverRaises ==
    sc.stream =>
        /\ sc.cpc # "raised"
        /\ (sc.cpc = "ended" /\ GaveUp) => sc.got = <<TerminalChunk>>

\* C12: when every request of stream_solve raises a connectivity or timeout
\* error, it makes n+1 requests for a retry count of n, sleeps n times, never
\* after the last request, and returns a stream of exactly one error chunk.
C12_RetriesThenErrorChunk ==
    (sc.fn = "stream_solve" /\ AllNetworkErrors) =>
        /\ sc.attempts <= sc.n + 1 /\ sc.sleeps <= sc.n
        /\ sc.pc = "try" => sc.sleeps = sc.attempts
        /\ sc.pc = "returned" =>
            /\ sc.attempts = sc.n + 1 /\ sc.sleeps = sc.n
            /\ sc.ret = ErrorGenerator(SolverErrorChunk)
        /\ sc.cpc # "raised"
        /\ sc.cpc = "ended" => sc.got = <<SolverErrorChunk>>

\* All four requests of a call with three retries failed and the caller has
\* read the error chunk to the end of the stream.
C12_Witness ==
    /\ sc.fn = "stream_solve" /\ sc.n = MAX_RETRIES /\ AllNetworkErrors
    /\ sc.attempts = MAX_RETRIES + 1 /\ sc.sleeps = MAX_RETRIES
    /\ sc.cpc = "ended" /\ sc.got = <<SolverErrorChunk>>

\* C13: ask_for_analysis returns the content of the reply when it is not
\* empty and an absent value otherwise; a request follows only connectivity
\* or timeout errors, and there are at most n+1 of them.
C13_AskReturnsContent ==
    (sc.fn = "ask_for_analysis" /\ sc.pc = "returned") =>
        /\ sc.ret = IF HasContent THEN TextResult(sc.reply.content) ELSE Absent
        /\ sc.attempts <= sc.n + 1
        /\ \A k \in 1..(Len(sc.log) - 1) : sc.log[k] = "network"

\* C13 as amended: ask_for_analysis returns the content of the reply with
\* the white space around it removed (the empty string for a content of
\* white space only) when the content is not empty, and an absent value
\* otherwise; a request follows only connectivity or timeout errors, and
\* there are at most n+1 of them.
C13_AskReturnsStrippedContent ==
    (sc.fn = "ask_for_analysis" /\ sc.pc = "returned") =>
        /\ sc.ret = IF HasContent THEN TextResult(Strip(sc.reply.content)) ELSE Absent
        /\ sc.attempts <= sc.n + 1
        /\ \A k \in 1..(Len(sc.log) - 1) : sc.log[k] = "network"

\* After one connectivity error the second request returned padded text,
\* which came back stripped.
C13_Witness ==
    /\ sc.fn = "ask_for_analysis" /\ sc.pc = "returned"
    /\ sc.log = <<"network", "ok">>
    /\ sc.reply.content = <<"sp", "x", "nl">> /\ sc.ret = TextResult(<<"x">>)

TranscriptionFailed(w) == wk[w].calls = {"classify", "transcribe"}

\* C14: a run whose transcription failed (it made the classifier and the
\* transcription calls and no merge or solve call) writes a FailureRecord
\* and no solution, and when it has ended its images are out of the
\* monitored directory.
C14_TranscriptionFailureAborts ==
    \A w \in Workers :
        (wk[w].pc = "task_done" /\ TranscriptionFailed(w)) =>
            /\ wk[w].fails = 1 /\ wk[w].sols = 0
            /\ \A k \in 1..Len(wk[w].task) : wk[w].task[k] \notin monitored

\* ------------------------------------------------------------ transcribe_images_raw
\* Largest number of images in the call examined.
MaxPaths == 3

\* The text the vision model reads off image number i.
TextOf(i) == <<i>>

\* What transcribe_single(index, path) comes to for image i: the stripped
\* text _call_qwen_api returns (it can be empty), None, or an exception.
SingleOutcomes(i) ==
    {[kind |-> "text", text |-> TextOf(i)], [kind |-> "text", text |-> <<>>],
     [kind |-> "none", text |-> <<>>], [kind |-> "raise", text |-> <<>>]}

\* Variant that stores each text at the place of its completion rank.
StoreAtRank(trs, index, rank, text) == [trs EXCEPT ![rank] = text]

\* transcriptions[index] = text
StoreAt(trs, index, rank, text) == [trs EXCEPT ![index] = text]

\* transcriptions = [""] * len(image_paths); all_successful = True
NewTranscribe(n) ==
    [n |-> n, pc |-> "gather", done |-> {}, order |-> <<>>,
     transcriptions |-> [i \in 1..n |-> <<>>], all_successful |-> TRUE,
     ret |-> [kind |-> "pending", list |-> <<>>]]

\* One turn of the as_completed loop: the future of image i is the next to
\* complete, and its result is handled.
FutureCompleted(i) ==
    /\ tr.pc = "gather" /\ i \in 1..tr.n /\ i \notin tr.done
    /\ \E r \in SingleOutcomes(i) :
        LET ok == r.kind = "text" /\ r.text # <<>>
            rank == Len(tr.order) + 1
        IN tr' = [tr EXCEPT !.done = @ \cup {i}, !.order = Append(@, i),
                            !.transcriptions = IF ok THEN StoreAt(@, i, rank, r.text) ELSE @,
                            !.all_successful = @ /\ ok]
    /\ UNCHANGED <<corevars, sc, fn, mv, gc, xvars>>

\* if not all_successful: return None
\* return transcriptions
TranscribeReturn ==
    /\ tr.pc = "gather" /\ tr.done = 1..tr.n
    /\ tr' = [tr EXCEPT !.pc = "returned",
                        !.ret = IF tr.all_successful
                                THEN [kind |-> "list", list |-> tr.transcriptions]
                                ELSE [kind |-> "none", list |-> <<>>]]
    /\ UNCHANGED <<corevars, sc, fn, mv, gc, xvars>>

InitT ==
    /\ InitCore
    /\ tr \in {NewTranscribe(n) : n \in 1..MaxPaths}
    /\ sc = <<>> /\ fn = <<>> /\ mv = <<>> /\ gc = <<>>
    /\ mn = <<>> /\ rt = <<>> /\ ty = <<>> /\ fm = <<>> /\ ag = <<>> /\ mt = <<>>

NextT ==
    \/ \E i \in 1..MaxPaths : FutureCompleted(i)
    \/ TranscribeReturn

SpecT == InitT /\ [][NextT]_vars

\* C15: when transcribe_images_raw returns a list, its i-th element is the
\* transcription of the i-th image, whatever the order in which the calls
\* completed.
C15_TranscriptionsInInputOrder ==
    (tr.pc = "returned" /\ tr.ret.kind = "list") =>
        /\ Len(tr.ret.list) = tr.n
        /\ \A i \in 1..tr.n : tr.ret.list[i] = TextOf(i)

\* Three transcriptions completed in the order 3, 1, 2 and the list was returned.
C15_Witness ==
    /\ tr.pc = "returned" /\ tr.ret.kind = "list"
    /\ tr.n = 3 /\ tr.order = <<3, 1, 2>>

\* ------------------------------------------------------------ routing and naming
\* The final problem type with its solver, and _generate_final_filename,
\* applied to one input each.

\* Longest transcript examined for routing, in units.
MaxUnits == 3
\* Longest transcript examined for naming, in characters.
MaxChars == 4

TextUnits == {"leet", "Leet", "LEET", "code", "Code", "CODE", "sp", "x"}
UnitTexts == UNION {[1..k -> TextUnits] : k \in 0..MaxUnits}

\* Characters of a transcript that matter for its question numbers.
TextChars == {"0", "1", "2", ".", "sp", "nl", "x"}
CharTexts == UNION {[1..k -> TextChars] : k \in 0..MaxChars}

\* Variant that sends every textual problem to the default solver.
DetermineSolverDefault(t, ft) == IF t = "VISUAL_REASONING" THEN "Qwen-VL" ELSE "DEFAULT_SOLVER"

\* _determine_solver, and the fixed solver of the visual branch
DetermineSolver(t, ft) ==
    IF t = "VISUAL_REASONING" THEN "Qwen-VL"
    ELSE IF ft \in {"LEETCODE", "ACM"} THEN "CODING_SOLVER" ELSE "DEFAULT_SOLVER"

IsDigit(c) == c \in {"0", "1", "2"}
DigitValue(c) == CASE c = "0" -> 0 [] c = "1" -> 1 [] c = "2" -> 2
DigitChar(d) == CASE d = 0 -> "0" [] d = 1 -> "1" [] d = 2 -> "2" [] d = 3 -> "3" [] d = 4 -> "4"
                  [] d = 5 -> "5" [] d = 6 -> "6" [] d = 7 -> "7" [] d = 8 -> "8" [] d = 9 -> "9"
\* int(digits)
RECURSIVE IntOf(_)
IntOf(ds) == IF ds = <<>> THEN 0 ELSE 10 * IntOf(SubSeq(ds, 1, Len(ds) - 1)) + DigitValue(ds[Len(ds)])
\* str(n)
RECURSIVE StrOf(_)
StrOf(n) == IF n < 10 THEN <<DigitChar(n)>> ELSE StrOf(n \div 10) \o <<DigitChar(n % 10)>>

\* The first position at or after p whose character does not satisfy the
\* test (Len(x) + 1 when there is none): where a greedy \s* or \d+ stops.
RECURSIVE SkipSpaces(_, _)
SkipSpaces(x, p) == IF p <= Len(x) /\ IsSpace(x[p]) THEN SkipSpaces(x, p + 1) ELSE p
RECURSIVE SkipDigits(_, _)
SkipDigits(x, p) == IF p <= Len(x) /\ IsDigit(x[p]) THEN SkipDigits(x, p + 1) ELSE p

\* The match of ^\s*(\d+)[.\s、] at line start p: the number it captures, or
\* -1 when it does not match.
MatchAt(x, p) ==
    LET q == SkipSpaces(x, p)
        r == SkipDigits(x, q)
    IN IF r > q /\ r <= Len(x) /\ (x[r] = "." \/ IsSpace(x[r]))
       THEN IntOf(SubSeq(x, q, r - 1)) ELSE -1

\* sorted(list(s))
RECURSIVE Sorted(_)
Sorted(S) == IF S = {} THEN <<>>
             ELSE LET m == CHOOSE a \in S : \A b \in S : a <= b IN <<m>> \o Sorted(S \ {m})

\* extract_question_numbers: re.findall over the line starts, then
\* sorted(list(set(map(int, matches))))
ExtractQuestionNumbers(x) ==
    LET starts == {p \in 1..Len(x) : p = 1 \/ x[p - 1] = "nl"}
    IN Sorted({MatchAt(x, p) : p \in starts} \ {-1})

\* ",".join(map(str, numbers))
RECURSIVE JoinNumbers(_)
JoinNumbers(ns) ==
    IF Len(ns) = 1 THEN StrOf(ns[1]) ELSE StrOf(ns[1]) \o <<",">> \o JoinNumbers(Tail(ns))

\* The prefix that never uses the range form.
FormatNumberPrefixJoined(ns) == IF ns = <<>> THEN <<>> ELSE JoinNumbers(ns)

\* format_number_prefix
FormatNumberPrefix(ns) ==
    IF ns = <<>> THEN <<>>
    ELSE IF Len(ns) = 1 THEN StrOf(ns[1])
    ELSE IF ns[Len(ns)] - ns[1] = Len(ns) - 1 THEN StrOf(ns[1]) \o <<"-">> \o StrOf(ns[Len(ns)])
    ELSE JoinNumbers(ns)

\* sanitize_filename: re.sub(r'[\\/:"*?<>|]+', '', filename)
IllegalChars == {"\\", "/", ":", "\"", "*", "?", "<", ">", "|"}
RECURSIVE SanitizeFilename(_)
SanitizeFilename(name) ==
    IF name = <<>> THEN <<>>
    ELSE (IF Head(name) \in IllegalChars THEN <<>> ELSE <<Head(name)>>) \o SanitizeFilename(Tail(name))

\* fallback_topic = f"{final_problem_type}_Solution"
FallbackTopic(ft) == <<ft, "_Solution">>

\* The body without the question numbers: the fallback is the topic alone.
FilenameBodyTopicOnly(x, ft, reply) ==
    IF reply.kind = "text" /\ reply.chunks[1] # <<>> THEN reply.chunks[1] ELSE FallbackTopic(ft)

\* The filename body of _generate_final_filename for the value `reply` that
\* ask_for_analysis returned:
\* if not filename_body: ... f"{number_prefix}_{fallback_topic}" if number_prefix else fallback_topic
FilenameBody(x, ft, reply) ==
    IF reply.kind = "text" /\ reply.chunks[1] # <<>>
    THEN reply.chunks[1]
    ELSE LET number_prefix == FormatNumberPrefix(ExtractQuestionNumbers(x))
         IN IF number_prefix # <<>> THEN number_prefix \o <<"_">> \o FallbackTopic(ft)
            ELSE FallbackTopic(ft)

\* final_filename = f"{timestamp}_{sanitize_filename(filename_body)}.md"
FinalFilename(x, ft, ts, reply) == <<"final", ts, SanitizeFilename(FilenameBody(x, ft, reply))>>

\* What ask_for_analysis can return for the filename prompt: nothing, or the
\* stripped content of the reply, which is empty for a reply of whitespace.
NameReplies == {Absent, TextResult(<<>>), TextResult(<<"Two", "sp", "Sum">>), TextResult(<<"a", "/", "b", "?">>),
                TextResult(<<"?">>)}

\* The types _generate_final_filename is called with.
FinalTypes == (ProblemTypes \ {"CODING"}) \cup {"LEETCODE", "ACM"}

\* One application: op says of which function.
NewRoute(t, x) == [op |-> "route", type |-> t, text |-> x, ts |-> 0, reply |-> Absent,
                   pc |-> "start", ftype |-> "", solver |-> "", path |-> <<>>]
NewName(ft, x, ts, reply) == [op |-> "name", type |-> ft, text |-> x, ts |-> ts, reply |-> reply,
                              pc |-> "start", ftype |-> ft, solver |-> "", path |-> <<>>]

\* The branch of _execute_pipeline that fixes final_problem_type and the solver.
determine_final_type ==
    /\ fn.op = "route" /\ fn.pc = "start"
    /\ LET ft == FinalType(fn.type, fn.text)
       IN fn' = [fn EXCEPT !.pc = "done", !.ftype = ft, !.solver = DetermineSolver(fn.type, ft)]
    /\ UNCHANGED <<corevars, sc, tr, mv, gc, xvars>>

\* _generate_final_filename
generate_final_filename ==
    /\ fn.op = "name" /\ fn.pc = "start"
    /\ fn' = [fn EXCEPT !.pc = "done", !.path = FinalFilename(fn.text, fn.type, fn.ts, fn.reply)]
    /\ UNCHANGED <<corevars, sc, tr, mv, gc, xvars>>

\* config.SOLVER_ROUTING_CONFIG: each rule names a configured provider.
Routings == [CODING_SOLVER : {"deepseek", "dashscope", "zhipu"},
             DEFAULT_SOLVER : {"deepseek", "dashscope", "zhipu"}]

\* model = config.SOLVER_CONFIG[provider]["model"]; the visual branch names
\* config.QWEN_VL_THINKING_MODEL_NAME
ModelOf(provider) ==
    IF provider = "Qwen-VL" THEN "QWEN_VL_THINKING_MODEL_NAME" ELSE <<"model", provider>>

\* One pass through step 3 up to the solver call.
\*   header: the "Selected Solver" line, <<>> while no header is written
\*   invoked: the solver calls made, each <<function, provider, model>>
NewSolve(t, x, routing) ==
    [op |-> "solve", type |-> t, text |-> x, routing |-> routing, pc |-> "start",
     ftype |-> "", header |-> <<>>, invoked |-> {}]

\* Step 3 of _execute_pipeline from the branch on problem_type to the call
\* that returns response_stream.  The visual branch writes its header with
\* the fixed identity and calls solve_visual_reasoning_problem; the other
\* branch asks _determine_solver, raises when there is no prompt template,
\* and else writes the header and calls stream_solve with the same
\* solver_provider and solver_model.
solve_step ==
    /\ fn.op = "solve" /\ fn.pc = "start"
    /\ LET ft == FinalType(fn.type, fn.text)
           key == DetermineSolver(fn.type, ft)
           solver_provider == IF key = "Qwen-VL" THEN key ELSE fn.routing[key]
           solver_model == ModelOf(solver_provider)
       IN IF fn.type = "VISUAL_REASONING"
          THEN fn' = [fn EXCEPT !.pc = "solve", !.ftype = ft,
                                !.header = <<solver_provider, solver_model>>,
                                !.invoked = {<<"solve_visual_reasoning_problem",
                                               "Qwen-VL", "QWEN_VL_THINKING_MODEL_NAME">>}]
          ELSE IF ~HasTemplate(ft)
          THEN fn' = [fn EXCEPT !.pc = "raised", !.ftype = ft]
          ELSE fn' = [fn EXCEPT !.pc = "solve", !.ftype = ft,
                                !.header = <<solver_provider, solver_model>>,
                                !.invoked = {<<"stream_solve", solver_provider, solver_model>>}]
    /\ UNCHANGED <<corevars, sc, tr, mv, gc, xvars>>

InitF ==
    /\ InitCore
    /\ fn \in {NewRoute(t, x) : t \in ProblemTypes, x \in UnitTexts}
              \cup {NewName(ft, x, 0, r) : ft \in {"ACM", "GENERAL"}, x \in CharTexts,
                                           r \in {Absent, TextResult(<<>>)}}
              \cup {NewName(ft, <<"1", ".", "x">>, ts, r) : ft \in FinalTypes, ts \in Stamps,
                                                           r \in NameReplies}
              \cup {NewSolve(t, x, r) : t \in ProblemTypes, x \in Transcripts, r \in Routings}
    /\ sc = <<>> /\ tr = <<>> /\ mv = <<>> /\ gc = <<>>
    /\ mn = <<>> /\ rt = <<>> /\ ty = <<>> /\ fm = <<>> /\ ag = <<>> /\ mt = <<>>

NextF ==
    \/ determine_final_type
    \/ generate_final_filename
    \/ solve_step

SpecF == InitF /\ [][NextF]_vars

\* "leetcode" occurs in the transcript in some spelling of upper and lower case.
SpellsLeetcode(x) ==
    \E k \in 1..(Len(x) - 1) : /\ x[k] \in {"leet", "Leet", "LEET"}
                               /\ x[k + 1] \in {"code", "Code", "CODE"}

\* C17: a CODING classification becomes LEETCODE exactly when the transcript
\* contains "leetcode" in any letter case and ACM otherwise, so the final type
\* is never CODING; every other classification is kept as it is.
C17_CodingRefined ==
    (fn # <<>> /\ fn.op = "route" /\ fn.pc = "done") =>
        /\ fn.ftype # "CODING"
        /\ fn.type = "CODING" => /\ fn.ftype = "LEETCODE" <=> SpellsLeetcode(fn.text)
                                 /\ fn.ftype = "ACM" <=> ~SpellsLeetcode(fn.text)
        /\ fn.type # "CODING" => fn.ftype = fn.type

\* A CODING transcript that says "LeetCode" in mixed case was routed as LEETCODE.
C17_Witness ==
    /\ fn # <<>> /\ fn.op = "route" /\ fn.pc = "done"
    /\ fn.type = "CODING" /\ fn.text = <<"x", "Leet", "CODE">> /\ fn.ftype = "LEETCODE"
    /\ fn.solver = "CODING_SOLVER"

\* The filename call returned nothing usable.
NoNameReply(r) == r.kind = "none" \/ (r.kind = "text" /\ r.chunks[1] = <<>>)

\* C18: when the filename call returns nothing, the body is
\* "<number-prefix>_<type>_Solution" if question numbers were extracted and
\* "<type>_Solution" otherwise; it is never empty, it survives sanitizing, and
\* the final name is "<timestamp>_<body>.md".
C18_FallbackName ==
    (fn # <<>> /\ fn.op = "name" /\ fn.pc = "done" /\ NoNameReply(fn.reply)) =>
        LET ns == ExtractQuestionNumbers(fn.text)
            body == IF ns # <<>>
                    THEN FormatNumberPrefix(ns) \o <<"_", fn.type, "_Solution">>
                    ELSE <<fn.type, "_Solution">>
        IN /\ ns # <<>> => FormatNumberPrefix(ns) # <<>>
           /\ body # <<>>
           /\ SanitizeFilename(body) = body
           /\ fn.path = <<"final", fn.ts, body>>

\* With no name from the model, the questions 0 and 2 of the transcript gave
\* the name "0,2_ACM_Solution".
C18_Witness ==
    /\ fn # <<>> /\ fn.op = "name" /\ fn.pc = "done" /\ fn.reply = Absent
    /\ fn.text = <<"2", "nl", "0", ".">> /\ fn.type = "ACM"
    /\ fn.path = <<"final", fn.ts, <<"0", ",", "2", "_", "ACM", "_Solution">>>>

\* ------------------------------------------------------------ _move_file_with_retry
\* The archive loop of one task calling _move_file_with_retry for each image
\* that still exists.

\* What one shutil.move does: it moves the file, it raises FileNotFoundError
\* (the source is gone), or it raises another exception (the file is locked).
MoveOutcomes == {"moved", "missing", "failed"}

\* A sleep after the last attempt as well.
ShouldSleepAlways(i, retries) == i < retries

\* if i < retries - 1: ... time.sleep(delay)
ShouldSleep(i, retries) == i < retries - 1

\* The call for image k of n: i is the loop variable, log the outcome of every
\* shutil.move so far, present whether the source file is in the directory,
\* results what the calls for the earlier images returned.
NewMove(n, k, results) ==
    [n |-> n, k |-> k, i |-> 0, pc |-> "try", attempts |-> 0, sleeps |-> 0, log |-> <<>>,
     present |-> TRUE, result |-> FALSE, results |-> results]

\* for i in range(retries): try: shutil.move(str(src), str(dest)) ...
MoveAttempt ==
    /\ mv.pc = "try"
    /\ \E o \in MoveOutcomes :
        /\ (o = "missing") <=> ~mv.present
        /\ LET m == [mv EXCEPT !.attempts = @ + 1, !.log = Append(@, o)]
           IN mv' = IF o = "moved" THEN [m EXCEPT !.pc = "returned", !.result = TRUE, !.present = FALSE]
                    ELSE IF o = "missing" THEN [m EXCEPT !.pc = "returned", !.result = TRUE]
                    ELSE IF ShouldSleep(mv.i, MoveRetries) THEN [m EXCEPT !.pc = "sleep"]
                    ELSE [m EXCEPT !.pc = "returned", !.result = FALSE]
    /\ UNCHANGED <<corevars, sc, tr, fn, gc, xvars>>

\* time.sleep(delay), then the next round of the loop; `return False` after
\* the loop when there is none.
MoveSleep ==
    /\ mv.pc = "sleep"
    /\ mv' = IF mv.i + 1 < MoveRetries
             THEN [mv EXCEPT !.pc = "try", !.sleeps = @ + 1, !.i = @ + 1]
             ELSE [mv EXCEPT !.pc = "returned", !.sleeps = @ + 1, !.i = @ + 1, !.result = FALSE]
    /\ UNCHANGED <<corevars, sc, tr, fn, gc, xvars>>

\* Another program deletes the source file while the call is under way.
SourceRemoved ==
    /\ mv.pc \in {"try", "sleep"} /\ mv.present
    /\ mv' = [mv EXCEPT !.present = FALSE]
    /\ UNCHANGED <<corevars, sc, tr, fn, gc, xvars>>

\* for img_path in group_to_process: the call for the next image
MoveNextImage ==
    /\ mv.pc = "returned" /\ mv.k < mv.n
    /\ mv' = NewMove(mv.n, mv.k + 1, Append(mv.results, mv.result))
    /\ UNCHANGED <<corevars, sc, tr, fn, gc, xvars>>

InitM ==
    /\ InitCore
    /\ mv \in {NewMove(n, 1, <<>>) : n \in 1..MaxImages}
    /\ sc = <<>> /\ tr = <<>> /\ fn = <<>> /\ gc = <<>>
    /\ mn = <<>> /\ rt = <<>> /\ ty = <<>> /\ fm = <<>> /\ ag = <<>> /\ mt = <<>>

NextM ==
    \/ MoveAttempt
    \/ MoveSleep
    \/ SourceRemoved
    \/ MoveNextImage

SpecM == InitM /\ [][NextM]_vars

\* C19: a move is tried at most three times; the call returns True at the
\* first attempt that moves the file or finds the source missing and makes no
\* attempt after it; it returns False only after three failed attempts; and it
\* sleeps once between two attempts, never after the last one.
C19_MoveRetryDiscipline ==
    mv # <<>> =>
        /\ mv.attempts = Len(mv.log) /\ mv.attempts <= 3
        /\ \A j \in 1..(Len(mv.log) - 1) : mv.log[j] = "failed"
        /\ mv.sleeps < 3
        /\ mv.pc = "try" => mv.sleeps = mv.attempts
        /\ mv.pc = "sleep" => mv.attempts < 3
        /\ mv.pc = "returned" =>
            /\ mv.attempts >= 1 /\ mv.sleeps = mv.attempts - 1
            /\ mv.result <=> mv.log[Len(mv.log)] \in {"moved", "missing"}
            /\ ~mv.result <=> mv.log = <<"failed", "failed", "failed">>

\* A call gave up after three failed attempts and two sleeps.
C19_Witness ==
    /\ mv # <<>> /\ mv.pc = "returned" /\ ~mv.result
    /\ mv.attempts = 3 /\ mv.sleeps = 2

\* ------------------------------------------------------------ get_client
\* The worker threads calling get_client, one statement at a time.

\* Calls of get_client one thread makes.
MaxCalls == 2

\* deepseek and dashscope are configured and have a key, zhipu is configured
\* without a key in .env, "other" is not in config.SOLVER_CONFIG.
Providers == {"deepseek", "dashscope", "zhipu", "other"}
\* config.SOLVER_CONFIG.get(provider)
HasConfig(p) == p # "other"
\* api_key_map.get(provider)
HasKey(p) == p \in {"deepseek", "dashscope"}

\* A thread outside get_client.
NoCall == [pc |-> "idle", provider |-> "", client |-> 0, calls |-> 0]

\* _clients is empty at import; made counts the OpenAI objects constructed for
\* a provider (they are numbered from 1), rets holds the objects returned.
NewClients ==
    [clients |-> [p \in Providers |-> 0], made |-> [p \in Providers |-> 0],
     rets |-> [p \in Providers |-> {}], raised |-> {}, th |-> [w \in Workers |-> NoCall]]

\* if provider in _clients: return _clients[provider]
GetClientCheck(w, p) ==
    /\ gc.th[w].pc = "idle" /\ gc.th[w].calls < MaxCalls
    /\ gc' = IF gc.clients[p] # 0
             THEN [gc EXCEPT !.th[w].calls = @ + 1, !.rets[p] = @ \cup {gc.clients[p]}]
             ELSE [gc EXCEPT !.th[w] = [pc |-> "config", provider |-> p, client |-> 0,
                                        calls |-> @.calls + 1]]
    /\ UNCHANGED <<corevars, sc, tr, fn, mv, xvars>>

\* The two lookups, each raising ValueError when it finds nothing.
GetClientConfig(w) ==
    /\ gc.th[w].pc = "config"
    /\ LET p == gc.th[w].provider
       IN gc' = IF HasConfig(p) /\ HasKey(p)
                THEN [gc EXCEPT !.th[w].pc = "construct"]
                ELSE [gc EXCEPT !.th[w] = [NoCall EXCEPT !.calls = gc.th[w].calls],
                                !.raised = @ \cup {p}]
    /\ UNCHANGED <<corevars, sc, tr, fn, mv, xvars>>

\* client = OpenAI(api_key=api_key, base_url=..., timeout=...)
GetClientConstruct(w) ==
    /\ gc.th[w].pc = "construct"
    /\ LET p == gc.th[w].provider
       IN gc' = [gc EXCEPT !.made[p] = @ + 1, !.th[w].client = gc.made[p] + 1,
                           !.th[w].pc = "store"]
    /\ UNCHANGED <<corevars, sc, tr, fn, mv, xvars>>

\* _clients[provider] = client; return client
GetClientStore(w) ==
    /\ gc.th[w].pc = "store"
    /\ LET p == gc.th[w].provider
           c == gc.th[w].client
       IN gc' = [gc EXCEPT !.clients[p] = c, !.rets[p] = @ \cup {c},
                           !.th[w] = [NoCall EXCEPT !.calls = gc.th[w].calls]]
    /\ UNCHANGED <<corevars, sc, tr, fn, mv, xvars>>

InitC ==
    /\ InitCore
    /\ gc = NewClients
    /\ sc = <<>> /\ tr = <<>> /\ fn = <<>> /\ mv = <<>>
    /\ mn = <<>> /\ rt = <<>> /\ ty = <<>> /\ fm = <<>> /\ ag = <<>> /\ mt = <<>>

NextC ==
    \/ \E w \in Workers, p \in Providers : GetClientCheck(w, p)
    \/ \E w \in Workers : GetClientConfig(w)
    \/ \E w \in Workers : GetClientConstruct(w)
    \/ \E w \in Workers : GetClientStore(w)

SpecC == InitC /\ [][NextC]_vars

\* C20: for every provider at most one client object is ever constructed and
\* all calls return that one object, and a provider whose calls fail never
\* gets an entry in the cache.
C20_OneClientPerProvider ==
    gc # <<>> =>
        \A p \in Providers :
            /\ gc.made[p] <= 1
            /\ Cardinality(gc.rets[p]) <= 1
            /\ p \in gc.raised => gc.clients[p] = 0 /\ gc.made[p] = 0

\* ------------------------------------------------------------ main
\* main() from the directory initialisation to the serving loop.

\* config.SOLVER_CONFIG.items(), in the order of the loop
ConfiguredProviders == <<"deepseek", "dashscope", "zhipu">>

\* What one health check meets: a response with choices, a response without,
\* an exception of get_client or of the request, or (in main itself) a
\* provider entry without "model".
HealthOutcomes == {"ok", "no_choices", "raises", "no_model"}

\* A health check that takes any response for a success.
CheckSolverHealthAnyResponse(o) == o \in {"ok", "no_choices"}

\* check_solver_health: True for a response with choices, False for a
\* response without and for every exception
CheckSolverHealth(o) == o = "ok"

\* The process at the first statement of main().
\*   key: config.DASHSCOPE_API_KEY is set;  seen: the outcome each provider's
\*   check met so far;  workers: worker threads started;  watch: the observer
\*   was started;  status: the exit status, -1 while the process runs
NewMain(key) ==
    [pc |-> "dirs", key |-> key, all_apis_ok |-> TRUE, dirs_ok |-> TRUE, seen |-> <<>>,
     workers |-> 0, watch |-> FALSE, status |-> -1]

\* config.initialize_directories(); except SystemExit: sys.exit(1)
MainInitDirs ==
    /\ mn.pc = "dirs"
    /\ \E ok \in BOOLEAN :
        mn' = IF ok THEN [mn EXCEPT !.pc = "key"]
              ELSE [mn EXCEPT !.pc = "exited", !.status = 1, !.dirs_ok = FALSE]
    /\ UNCHANGED <<corevars, svars, rt, ty, fm, ag, mt>>

\* if not config.DASHSCOPE_API_KEY: all_apis_ok = False
MainCheckKey ==
    /\ mn.pc = "key"
    /\ mn' = [mn EXCEPT !.pc = "health", !.all_apis_ok = mn.key]
    /\ UNCHANGED <<corevars, svars, rt, ty, fm, ag, mt>>

\* One round of: for provider, details in config.SOLVER_CONFIG.items()
MainCheckProvider ==
    /\ mn.pc = "health" /\ Len(mn.seen) < Len(ConfiguredProviders)
    /\ \E o \in HealthOutcomes :
        LET passed == o # "no_model" /\ CheckSolverHealth(o)
        IN mn' = [mn EXCEPT !.seen = Append(@, o), !.all_apis_ok = @ /\ passed]
    /\ UNCHANGED <<corevars, svars, rt, ty, fm, ag, mt>>

\* if not all_apis_ok: sys.exit(1)
MainDecide ==
    /\ mn.pc = "health" /\ Len(mn.seen) = Len(ConfiguredProviders)
    /\ mn' = IF mn.all_apis_ok THEN [mn EXCEPT !.pc = "construct"]
             ELSE [mn EXCEPT !.pc = "exited", !.status = 1]
    /\ UNCHANGED <<corevars, svars, rt, ty, fm, ag, mt>>

\* image_grouper = ImageGrouper(): _start_workers starts every worker thread
MainConstruct ==
    /\ mn.pc = "construct"
    /\ mn' = [mn EXCEPT !.pc = "monitor", !.workers = NumWorkers]
    /\ UNCHANGED <<corevars, svars, rt, ty, fm, ag, mt>>

\* observer = file_monitor.start_monitoring(config.MONITOR_DIR, image_grouper);
\* an exception of the observer (the directory does not exist) ends the process
MainStartMonitoring ==
    /\ mn.pc = "monitor"
    /\ \E ok \in BOOLEAN :
        mn' = IF ok THEN [mn EXCEPT !.pc = "serving", !.watch = TRUE]
              ELSE [mn EXCEPT !.pc = "exited", !.status = 1]
    /\ UNCHANGED <<corevars, svars, rt, ty, fm, ag, mt>>

\* except KeyboardInterrupt ... finally: observer.stop(); observer.join()
MainInterrupted ==
    /\ mn.pc = "serving"
    /\ mn' = [mn EXCEPT !.pc = "exited", !.status = 0, !.watch = FALSE]
    /\ UNCHANGED <<corevars, svars, rt, ty, fm, ag, mt>>

InitMain ==
    /\ InitCore
    /\ mn \in {NewMain(key) : key \in BOOLEAN}
    /\ sc = <<>> /\ tr = <<>> /\ fn = <<>> /\ mv = <<>> /\ gc = <<>>
    /\ rt = <<>> /\ ty = <<>> /\ fm = <<>> /\ ag = <<>> /\ mt = <<>>

NextMain ==
    \/ MainInitDirs
    \/ MainCheckKey
    \/ MainCheckProvider
    \/ MainDecide
    \/ MainConstruct
    \/ MainStartMonitoring
    \/ MainInterrupted

SpecMain == InitMain /\ [][NextMain]_vars

\* Every startup check has been made and has passed.
AllChecksPassed ==
    /\ mn.dirs_ok /\ mn.key
    /\ Len(mn.seen) = Len(ConfiguredProviders)
    /\ \A i \in 1..Len(mn.seen) : mn.seen[i] = "ok"

\* A startup check that was made has failed.
SomeCheckFailed ==
    \/ ~mn.dirs_ok
    \/ mn.pc \notin {"dirs", "key"} /\ ~mn.key
    \/ \E i \in 1..Len(mn.seen) : mn.seen[i] # "ok"

\* C21: worker threads and the directory watch exist only after the vision
\* credential was found and every configured provider passed its health
\* check; after a failed check nothing is ever started and the process, once
\* it has exited, has a non-zero status.
C21_StartOnlyAfterChecks ==
    mn # <<>> =>
        /\ (mn.workers > 0 \/ mn.watch \/ mn.pc \in {"construct", "monitor", "serving"})
               => AllChecksPassed
        /\ SomeCheckFailed => /\ mn.workers = 0 /\ ~mn.watch
                              /\ mn.pc = "exited" => mn.status = 1

\* A run whose second provider answered without choices has exited with
\* status 1 and has started no worker.
C21_Witness ==
    /\ mn # <<>> /\ mn.pc = "exited" /\ mn.status = 1 /\ mn.key
    /\ mn.seen = <<"ok", "no_choices", "ok">> /\ mn.workers = 0

\* ------------------------------------------------------------ remote trigger
\* POST /trigger-screenshot served by the threads of the web server, one
\* statement at a time, and the capture threads they start.

\* Requests the server receives.
MaxRequests == 3
Requests == 1..MaxRequests

\* is_capturing = False at import; no request has arrived.
\*   req: per request its position, its response status (0: none yet)
\*   captures: the requests whose capture thread is running
\*   started: the requests that started a capture thread
\*   shots: the requests whose capture saved a screenshot
NewTrigger ==
    [is_capturing |-> FALSE, req |-> [r \in Requests |-> [pc |-> "new", status |-> 0]],
     captures |-> {}, started |-> {}, shots |-> {}]

\* trigger_api: if is_capturing: return ..., 429
TriggerApi(r) ==
    /\ rt.req[r].pc = "new"
    /\ rt' = IF rt.is_capturing
             THEN [rt EXCEPT !.req[r] = [pc |-> "done", status |-> 429]]
             ELSE [rt EXCEPT !.req[r].pc = "trigger"]
    /\ UNCHANGED <<corevars, svars, mn, ty, fm, ag, mt>>

\* trigger_screenshot_thread: if not is_capturing: ... else return False,
\* which trigger_api answers with 500
TriggerTest(r) ==
    /\ rt.req[r].pc = "trigger"
    /\ rt' = IF ~rt.is_capturing
             THEN [rt EXCEPT !.req[r].pc = "set"]
             ELSE [rt EXCEPT !.req[r] = [pc |-> "done", status |-> 500]]
    /\ UNCHANGED <<corevars, svars, mn, ty, fm, ag, mt>>

\* is_capturing = True
TriggerSet(r) ==
    /\ rt.req[r].pc = "set"
    /\ rt' = [rt EXCEPT !.is_capturing = TRUE, !.req[r].pc = "start"]
    /\ UNCHANGED <<corevars, svars, mn, ty, fm, ag, mt>>

\* worker_thread.start(); return True, which trigger_api answers with 200
TriggerStart(r) ==
    /\ rt.req[r].pc = "start"
    /\ rt' = [rt EXCEPT !.req[r] = [pc |-> "done", status |-> 200],
                        !.captures = @ \cup {r}, !.started = @ \cup {r}]
    /\ UNCHANGED <<corevars, svars, mn, ty, fm, ag, mt>>

\* Variant that releases the guard as the last statement of the try block:
\* a capture that failed leaves it set.
GuardAfterCaptureOnSuccess(saved) == ~saved

\* finally: ... is_capturing = False, reached when the screenshot was saved
\* and, through the except clause, when any step of the capture raised.
GuardAfterCapture(saved) == FALSE

\* take_screenshot_action runs to its end: the capture saves its screenshot
\* or fails at one of its steps, then the finally clause releases the guard.
CaptureDone(r) ==
    /\ r \in rt.captures
    /\ \E saved \in BOOLEAN :
        rt' = [rt EXCEPT !.captures = @ \ {r},
                         !.shots = IF saved THEN @ \cup {r} ELSE @,
                         !.is_capturing = GuardAfterCapture(saved)]
    /\ UNCHANGED <<corevars, svars, mn, ty, fm, ag, mt>>

InitR ==
    /\ InitCore
    /\ rt = NewTrigger
    /\ sc = <<>> /\ tr = <<>> /\ fn = <<>> /\ mv = <<>> /\ gc = <<>>
    /\ mn = <<>> /\ ty = <<>> /\ fm = <<>> /\ ag = <<>> /\ mt = <<>>

NextR ==
    \/ \E r \in Requests : TriggerApi(r)
    \/ \E r \in Requests : TriggerTest(r)
    \/ \E r \in Requests : TriggerSet(r)
    \/ \E r \in Requests : TriggerStart(r)
    \/ \E r \in Requests : CaptureDone(r)

SpecR == InitR /\ [][NextR]_vars

\* C22: every answered request got 429 or 200, a 200 only after the request
\* started a capture thread of its own, a 429 without starting one.
C22_BusyOrStarted ==
    rt # <<>> =>
        \A r \in Requests :
            rt.req[r].pc = "done" =>
                /\ rt.req[r].status \in {200, 429}
                /\ rt.req[r].status = 200 <=> r \in rt.started

\* ------------------------------------------------------------ failure records

\* C23: a file under a failure record's final name is never partially
\* written: it holds the whole record and no thread is still writing to it.
C23_FailureRecordsComplete ==
    \A p \in DOMAIN outdir :
        IsFailure(p) =>
            LET f == files[outdir[p]] IN
                /\ f.hdr # 0
                /\ Len(f.body) = 1
                /\ \A w \in Workers : wk[w].fh # outdir[p]

\* ------------------------------------------------------------ simulate_typing
\* TypingSimulator.simulate_typing sending its keystrokes to a plain-text
\* buffer that was empty at the start.

\* Longest text typed, in characters.
MaxTyped == 4

\* "a" has neighbours in KEYBOARD_LAYOUT, "1" has none.
TypedChars == {"a", "1", "sp", "nl"}
TypedTexts == UNION {[1..k -> TypedChars] : k \in 0..MaxTyped}

\* KEYBOARD_LAYOUT.get(char.lower())
KeyboardLayout(c) == IF c = "a" THEN {"q", "s", "z"} ELSE {}

\* str.splitlines(): the lines between the line breaks, without a last empty
\* line for a text that ends in a line break
RECURSIVE SplitLines(_)
SplitLines(x) ==
    IF x = <<>> THEN <<>>
    ELSE IF \E k \in 1..Len(x) : x[k] = "nl"
         THEN LET k == CHOOSE k \in 1..Len(x) : x[k] = "nl" /\ \A h \in 1..(k - 1) : x[h] # "nl"
              IN <<SubSeq(x, 1, k - 1)>> \o SplitLines(SubSeq(x, k + 1, Len(x)))
         ELSE <<x>>

\* len(line) - len(line.lstrip(' '))
RECURSIVE LeadingSpaces(_)
LeadingSpaces(line) ==
    IF line # <<>> /\ Head(line) = "sp" THEN 1 + LeadingSpaces(Tail(line)) ELSE 0

\* The text buffer: its characters and the cursor's place (0: before the first).
EmptyBuffer == [text |-> <<>>, cur |-> 0]

\* keyboard.write(c): the character goes in at the cursor
KeyWrite(b, c) ==
    [text |-> SubSeq(b.text, 1, b.cur) \o <<c>> \o SubSeq(b.text, b.cur + 1, Len(b.text)),
     cur |-> b.cur + 1]

RECURSIVE KeyWriteAll(_, _)
KeyWriteAll(b, cs) == IF cs = <<>> THEN b ELSE KeyWriteAll(KeyWrite(b, Head(cs)), Tail(cs))

\* keyboard.send('backspace')
KeyBackspace(b) ==
    IF b.cur = 0 THEN b
    ELSE [text |-> SubSeq(b.text, 1, b.cur - 1) \o SubSeq(b.text, b.cur + 1, Len(b.text)),
          cur |-> b.cur - 1]

\* keyboard.send('home'): the cursor goes to the start of its line
RECURSIVE KeyHome(_)
KeyHome(b) ==
    IF b.cur = 0 \/ b.text[b.cur] = "nl" THEN b ELSE KeyHome([b EXCEPT !.cur = @ - 1])

\* keyboard.send('esc') leaves a plain-text buffer as it is
KeyEsc(b) == b

\* The call at its first statement: i is the index of the line being typed
\* (from 1), j the index of the next character of its content.
NewTyping(x) ==
    [text |-> x, lines |-> SplitLines(x), i |-> 1, j |-> 0, pc |-> "line",
     buf |-> EmptyBuffer, typos |-> 0]

\* The position after line i is done.
TypingNextLine(t) ==
    IF t.i >= Len(t.lines) THEN [t EXCEPT !.pc = "done", !.i = @ + 1, !.j = 0]
    ELSE [t EXCEPT !.pc = "line", !.i = @ + 1, !.j = 0]

\* One round of `for i, line in enumerate(lines)` up to the loop over the
\* line's content: a blank line is a single newline; otherwise esc, newline
\* and home for every line but the first, then the leading spaces.
TypeLineStart ==
    /\ ty.pc = "line"
    /\ IF ty.lines = <<>>
       THEN ty' = [ty EXCEPT !.pc = "done"]
       ELSE LET line == ty.lines[ty.i]
                n == LeadingSpaces(line)
                b1 == IF ty.i > 1 THEN KeyHome(KeyWrite(KeyEsc(ty.buf), "nl")) ELSE ty.buf
                b2 == KeyWriteAll(b1, SubSeq(line, 1, n))
            IN IF Strip(line) = <<>>
               THEN ty' = TypingNextLine([ty EXCEPT !.buf = KeyWrite(ty.buf, "nl")])
               ELSE ty' = [ty EXCEPT !.buf = b2, !.pc = "chars", !.j = n + 1]
    /\ UNCHANGED <<corevars, svars, mn, rt, fm, ag, mt>>

\* One round of `for char in content_of_line`: with a typo (a neighbour key
\* and a backspace first) or without.
TypeChar ==
    /\ ty.pc = "chars"
    /\ LET line == ty.lines[ty.i] IN
       IF ty.j > Len(line)
       THEN ty' = TypingNextLine(ty)
       ELSE LET char == line[ty.j] IN
            \/ ty' = [ty EXCEPT !.buf = KeyWrite(@, char), !.j = @ + 1]
            \/ \E error_char \in KeyboardLayout(char) :
                 ty' = [ty EXCEPT !.buf = KeyWrite(KeyBackspace(KeyWrite(@, error_char)), char),
                                  !.j = @ + 1, !.typos = 1]
    /\ UNCHANGED <<corevars, svars, mn, rt, fm, ag, mt>>

InitTy ==
    /\ InitCore
    /\ ty \in {NewTyping(x) : x \in TypedTexts}
    /\ sc = <<>> /\ tr = <<>> /\ fn = <<>> /\ mv = <<>> /\ gc = <<>>
    /\ mn = <<>> /\ rt = <<>> /\ fm = <<>> /\ ag = <<>> /\ mt = <<>>

NextTy ==
    \/ TypeLineStart
    \/ TypeChar

SpecTy == InitTy /\ [][NextTy]_vars

\* C24: when simulate_typing has sent all its keystrokes, the buffer holds
\* exactly the input text.
C24_TypedTextIsInput ==
    (ty # <<>> /\ ty.pc = "done") => ty.buf.text = ty.text

\* ------------------------------------------------------------ file monitor
\* ImageEventHandler.on_created for the creation events of the watched
\* directory.

\* Creation events handled.
MaxEvents == 2

\* config.ALLOWED_EXTENSIONS, without the dot
AllowedExtensions == {"png", "jpg", "jpeg", "bmp", "webp"}

\* File names as their parts between the dots: <<"shot", "PNG">> is shot.PNG,
\* <<"", "png">> is .png, <<"shot", "png", "">> is "shot.png.".
FileNames == {<<"shot", "png">>, <<"shot", "PNG">>, <<"shot", "Jpg">>, <<"shot", "jpeg">>,
              <<"shot", "BMP">>, <<"shot", "webp">>, <<"shot", "gif">>, <<"shot", "pngx">>,
              <<"shot">>, <<"png">>, <<"", "png">>, <<"shot", "png", "">>,
              <<"shot", "txt", "WebP">>, <<"shot", "png", "txt">>}

\* The suffix left as it is spelled.
SuffixAsIs(e) == e

\* str.lower() of a suffix
LowerSuffix(e) ==
    CASE e \in {"png", "PNG"} -> "png"
      [] e \in {"jpg", "Jpg"} -> "jpg"
      [] e \in {"bmp", "BMP"} -> "bmp"
      [] e \in {"webp", "WebP"} -> "webp"
      [] OTHER -> e

\* Path.suffix without its dot ("" for no suffix): the part after the last dot
\* unless that dot is the first or the last character of the name
PathSuffix(name) ==
    IF Len(name) >= 2 /\ name[Len(name)] # "" /\ ~(Len(name) = 2 /\ name[1] = "")
    THEN name[Len(name)] ELSE ""

CreationEvents == [is_directory : BOOLEAN, src_path : FileNames]

\* src_path.suffix.lower() in config.ALLOWED_EXTENSIONS
SuffixAllowed(name) ==
    PathSuffix(name) # "" /\ LowerSuffix(PathSuffix(name)) \in AllowedExtensions

\* on_created(event): events is the history of the events handled, calls the
\* arguments of the add_image calls made
on_created(event) ==
    /\ Len(fm.events) < MaxEvents
    /\ fm' = [events |-> Append(fm.events, event),
              calls |-> IF ~event.is_directory /\ SuffixAllowed(event.src_path)
                        THEN Append(fm.calls, event.src_path) ELSE fm.calls]
    /\ UNCHANGED <<corevars, svars, mn, rt, ty, ag, mt>>

InitFM ==
    /\ InitCore
    /\ fm = [events |-> <<>>, calls |-> <<>>]
    /\ sc = <<>> /\ tr = <<>> /\ fn = <<>> /\ mv = <<>> /\ gc = <<>>
    /\ mn = <<>> /\ rt = <<>> /\ ty = <<>> /\ ag = <<>> /\ mt = <<>>

NextFM == \E event \in CreationEvents : on_created(event)

SpecFM == InitFM /\ [][NextFM]_vars

\* The name ends in one of the five extensions, in some spelling of upper and
\* lower case.
IsImageName(name) ==
    /\ Len(name) >= 2 /\ ~(Len(name) = 2 /\ name[1] = "")
    /\ name[Len(name)] \in {"png", "PNG", "jpg", "Jpg", "jpeg", "bmp", "BMP", "webp", "WebP"}

\* The paths add_image is to be called with for a history of events.
RECURSIVE ExpectedCalls(_)
ExpectedCalls(es) ==
    IF es = <<>> THEN <<>>
    ELSE (IF ~Head(es).is_directory /\ IsImageName(Head(es).src_path)
          THEN <<Head(es).src_path>> ELSE <<>>) \o ExpectedCalls(Tail(es))

MaxFiles == 3

\* What happens to one file: it is read, open() raises, or infile.read() raises.
ReadOutcomes == {"ok", "open_fails", "read_fails"}

\* The run at the first round of the loop over the n files whose outcomes are
\* given: i is the index of the next file, clean_rel_path the local variable
\* (0 while it is unbound), out the blocks written so far, status the exit
\* status (-1 while the run lasts).
NewAggregate(outcomes) ==
    [files |-> outcomes, i |-> 1, clean_rel_path |-> 0, out |-> <<>>, pc |-> "loop", status |-> -1]

\* One round of: for rel_path in py_files_to_aggregate. The except clause
\* reads clean_rel_path, which is assigned only after open() has succeeded:
\* while it is unbound the clause itself raises, and the outer except clause
\* ends the run with sys.exit(1).
AggregateFile ==
    /\ ag.pc = "loop" /\ ag.i <= Len(ag.files)
    /\ LET o == ag.files[ag.i]
           k == ag.i
       IN ag' = CASE o = "ok" ->
                       [ag EXCEPT !.i = k + 1, !.clean_rel_path = k,
                                  !.out = @ \o <<<<"START", k>>, <<"CONTENT", k>>, <<"END", k>>>>]
                  [] o = "read_fails" ->
                       [ag EXCEPT !.i = k + 1, !.clean_rel_path = k,
                                  !.out = @ \o <<<<"START", k>>, <<"ERROR", k>>>>]
                  [] o = "open_fails" /\ ag.clean_rel_path = 0 ->
                       [ag EXCEPT !.pc = "exited", !.status = 1]
                  [] o = "open_fails" /\ ag.clean_rel_path # 0 ->
                       [ag EXCEPT !.i = k + 1, !.out = Append(@, <<"ERROR", ag.clean_rel_path>>)]
    /\ UNCHANGED <<corevars, svars, mn, rt, ty, fm, mt>>

\* The loop is over: the output is closed and the function returns.
AggregateReturn ==
    /\ ag.pc = "loop" /\ ag.i > Len(ag.files)
    /\ ag' = [ag EXCEPT !.pc = "done", !.status = 0]
    /\ UNCHANGED <<corevars, svars, mn, rt, ty, fm, mt>>

InitAg ==
    /\ InitCore
    /\ ag \in {NewAggregate(os) : os \in UNION {[1..n -> ReadOutcomes] : n \in 1..MaxFiles}}
    /\ sc = <<>> /\ tr = <<>> /\ fn = <<>> /\ mv = <<>> /\ gc = <<>>
    /\ mn = <<>> /\ rt = <<>> /\ ty = <<>> /\ fm = <<>> /\ mt = <<>>

NextAg ==
    \/ AggregateFile
    \/ AggregateReturn

SpecAg == InitAg /\ [][NextAg]_vars

\* C26: an unreadable file never ends the run; every file the loop is done
\* with has its content in the output if it was read and an error marker
\* with its own name if it was not, and no marker names a file that was read.
C26_UnreadableFilesMarked ==
    ag # <<>> =>
        /\ ag.pc # "exited"
        /\ \A k \in 1..(ag.i - 1) :
              IF ag.files[k] = "ok"
              THEN /\ \E j \in 1..Len(ag.out) : ag.out[j] = <<"CONTENT", k>>
                   /\ \A j \in 1..Len(ag.out) : ag.out[j] # <<"ERROR", k>>
              ELSE \E j \in 1..Len(ag.out) : ag.out[j] = <<"ERROR", k>>

\* ------------------------------------------------------------ merge_transcribed_texts
\* A fragment is a sequence of pieces. A piece stands for a run of characters
\* that occur nowhere else: "P" and "Q" are two runs of 20 characters, "r" is
\* a run of 19, "c" a single character; "blank" is the separator "\n\n".
\* Two fragments share a run of characters exactly where they share pieces,
\* so SequenceMatcher's blocks are runs of equal pieces, measured in
\* characters.

\* Longest fragment, in pieces.
MaxPieces == 3

MIN_OVERLAP_LENGTH == 20

Pieces == {"P", "Q", "r", "c"}
Fragments == UNION {[1..k -> Pieces] : k \in 0..MaxPieces}

\* len() of a piece and of a text
PieceLen(t) == CASE t \in {"P", "Q"} -> 20 [] t = "r" -> 19 [] t = "c" -> 1 [] t = "blank" -> 2
RECURSIVE TextLen(_)
TextLen(x) == IF x = <<>> THEN 0 ELSE PieceLen(Head(x)) + TextLen(Tail(x))

\* The blocks a[i..i+k-1] = b[j..j+k-1] inside a[alo..ahi] and b[blo..bhi].
CommonBlocks(a, b, alo, ahi, blo, bhi) ==
    {m \in (alo..ahi) \X (blo..bhi) \X (1..(ahi - alo + 1)) :
        /\ m[1] + m[3] - 1 <= ahi /\ m[2] + m[3] - 1 <= bhi
        /\ SubSeq(a, m[1], m[1] + m[3] - 1) = SubSeq(b, m[2], m[2] + m[3] - 1)}

BlockLen(a, m) == TextLen(SubSeq(a, m[1], m[1] + m[3] - 1))

\* SequenceMatcher.find_longest_match without junk: a longest block, of those
\* the one that starts earliest in a, of those the one that starts earliest
\* in b.
FindLongestMatch(a, b, alo, ahi, blo, bhi) ==
    LET C == CommonBlocks(a, b, alo, ahi, blo, bhi)
    IN CHOOSE m \in C :
          \A n \in C : \/ BlockLen(a, m) > BlockLen(a, n)
                       \/ /\ BlockLen(a, m) = BlockLen(a, n)
                          /\ \/ m[1] < n[1]
                             \/ m[1] = n[1] /\ m[2] <= n[2]

\* SequenceMatcher.get_matching_blocks: the longest block of the range, then
\* the blocks of what lies to its left in both texts and of what lies to its
\* right in both.
RECURSIVE MatchingBlocks(_, _, _, _, _, _)
MatchingBlocks(a, b, alo, ahi, blo, bhi) ==
    IF CommonBlocks(a, b, alo, ahi, blo, bhi) = {} THEN {}
    ELSE LET m == FindLongestMatch(a, b, alo, ahi, blo, bhi)
         IN {m} \cup MatchingBlocks(a, b, alo, m[1] - 1, blo, m[2] - 1)
                \cup MatchingBlocks(a, b, m[1] + m[3], ahi, m[2] + m[3], bhi)

\* The loop over matching_blocks: the block that ends with prev_text and
\* starts with curr_text, as the number of pieces it covers (0: there is none).
BestOverlap(prev_text, curr_text) ==
    LET B == {m \in MatchingBlocks(prev_text, curr_text, 1, Len(prev_text), 1, Len(curr_text)) :
                 m[1] + m[3] - 1 = Len(prev_text) /\ m[2] = 1}
    IN IF B = {} THEN 0 ELSE (CHOOSE m \in B : TRUE)[3]

\* One round of the loop of merge_transcribed_texts.
MergeNext(prev_text, curr_text) ==
    LET k == BestOverlap(prev_text, curr_text)
        best_overlap_size == TextLen(SubSeq(curr_text, 1, k))
    IN IF best_overlap_size >= MIN_OVERLAP_LENGTH
       THEN prev_text \o SubSeq(curr_text, k + 1, Len(curr_text))
       ELSE prev_text \o <<"blank">> \o curr_text

\* merge_transcribed_texts(texts), for at most two fragments
MergeTranscribedTexts(texts) ==
    IF texts = <<>> THEN <<>>
    ELSE IF Len(texts) = 1 THEN texts[1]
    ELSE MergeNext(texts[1], texts[2])

merge_transcribed_texts ==
    /\ mt.pc = "start"
    /\ mt' = [mt EXCEPT !.pc = "done", !.result = MergeTranscribedTexts(mt.texts)]
    /\ UNCHANGED <<corevars, svars, mn, rt, ty, fm, ag>>

InitMT ==
    /\ InitCore
    /\ mt \in {[texts |-> ts, pc |-> "start", result |-> <<>>] :
                  ts \in UNION {[1..n -> Fragments] : n \in 0..2}}
    /\ sc = <<>> /\ tr = <<>> /\ fn = <<>> /\ mv = <<>> /\ gc = <<>>
    /\ mn = <<>> /\ rt = <<>> /\ ty = <<>> /\ fm = <<>> /\ ag = <<>>

NextMT == merge_transcribed_texts

SpecMT == InitMT /\ [][NextMT]_vars

\* The numbers of pieces k such that the last k pieces of a are the first k
\* pieces of b and make up at least 20 characters.
SharedEnds(a, b) ==
    {k \in 1..Len(b) : /\ k <= Len(a)
                       /\ SubSeq(a, Len(a) - k + 1, Len(a)) = SubSeq(b, 1, k)
                       /\ TextLen(SubSeq(b, 1, k)) >= 20}

\* C27: when a suffix of a of at least 20 characters is a prefix of b, the
\* merge of [a, b] is a followed by b without that prefix; otherwise it is a,
\* the blank-line separator, and all of b.
C27_MergeSharesOverlapOnce ==
    (mt # <<>> /\ mt.pc = "done" /\ Len(mt.texts) = 2) =>
        LET a == mt.texts[1]
            b == mt.texts[2]
        IN IF SharedEnds(a, b) # {}
           THEN \E k \in SharedEnds(a, b) : mt.result = a \o SubSeq(b, k + 1, Len(b))
           ELSE mt.result = a \o <<"blank">> \o b

\* ------------------------------------------------------------ format_number_prefix
\* format_number_prefix applied to one sorted list of distinct numbers.

\* Largest question number.
MaxNumber == 11

\* The sorted lists of distinct numbers.
NumberLists == {Sorted(S) : S \in SUBSET (0..MaxNumber)}

format_number_prefix ==
    /\ fn.op = "prefix" /\ fn.pc = "start"
    /\ fn' = [fn EXCEPT !.pc = "done", !.prefix = FormatNumberPrefix(fn.numbers)]
    /\ UNCHANGED <<corevars, sc, tr, mv, gc, xvars>>

InitFP ==
    /\ InitCore
    /\ fn \in {[op |-> "prefix", pc |-> "start", numbers |-> ns, prefix |-> <<>>] : ns \in NumberLists}
    /\ sc = <<>> /\ tr = <<>> /\ mv = <<>> /\ gc = <<>>
    /\ mn = <<>> /\ rt = <<>> /\ ty = <<>> /\ fm = <<>> /\ ag = <<>> /\ mt = <<>>

NextFP == format_number_prefix

SpecFP == InitFP /\ [][NextFP]_vars

\* The decimal numerals of ns[i], ns[i+1], ..., with a comma between two.
RECURSIVE CommaJoinedFrom(_, _)
CommaJoinedFrom(ns, i) ==
    IF i > Len(ns) THEN <<>>
    ELSE (IF i > 1 THEN <<",">> ELSE <<>>) \o StrOf(ns[i]) \o CommaJoinedFrom(ns, i + 1)

\* C28: for a sorted list of distinct numbers the prefix is empty for the
\* empty list, the number for one element, "first-last" exactly when
\* last - first = count - 1 with count >= 2, and the comma-joined list of all
\* elements otherwise.
C28_PrefixForm ==
    (fn # <<>> /\ fn.op = "prefix" /\ fn.pc = "done") =>
        LET ns == fn.numbers
            n == Len(ns)
        IN /\ n = 0 => fn.prefix = <<>>
           /\ n = 1 => fn.prefix = StrOf(ns[1])
           /\ (n >= 2 /\ ns[n] - ns[1] = n - 1) => fn.prefix = StrOf(ns[1]) \o <<"-">> \o StrOf(ns[n])
           /\ (n >= 2 /\ ns[n] - ns[1] # n - 1) => fn.prefix = CommaJoinedFrom(ns, 1)
           /\ (\E i \in 1..Len(fn.prefix) : fn.prefix[i] = "-") <=> (n >= 2 /\ ns[n] - ns[1] = n - 1)

\* [1, 2, 5] gave "1,2,5", which is no range.
C28_Witness ==
    /\ fn # <<>> /\ fn.op = "prefix" /\ fn.pc = "done"
    /\ fn.numbers = <<1, 2, 5>> /\ fn.prefix = <<"1", ",", "2", ",", "5">>

\* ------------------------------------------------------------ submission

\* C29: no empty task is ever put on the queue; the locked part of the
\* submission routine changes nothing when the buffer is empty, and otherwise
\* takes a copy of the buffer and leaves the buffer empty; and no later step
\* (an add_image in particular) alters a task that was copied or queued.
C29_SubmitCopiesBuffer ==
    [][ /\ \A i \in Images :
            /\ (timers[i].st = "fired" /\ timers'[i].st # "fired") =>
                  IF current_group = <<>>
                  THEN /\ timers'[i].st = "done"
                       /\ UNCHANGED <<current_group, task_queue, put_log, unfinished>>
                  ELSE /\ timers'[i].st = "holding"
                       /\ timers'[i].group = current_group
                       /\ current_group' = <<>>
            /\ timers[i].st = "holding" =>
                  /\ timers[i].group # <<>>
                  /\ timers'[i].group = timers[i].group
        /\ Len(task_queue') >= Len(task_queue)
        /\ \A k \in 1..Len(task_queue) : task_queue'[k] = task_queue[k]
        /\ \A k \in 1..Len(task_queue') : task_queue'[k] # <<>>
      ]_vars

\* The task of images 1 and 2 is on the queue unchanged after image 3 was
\* added to the buffer.
C29_Witness ==
    /\ Len(task_queue) = 1 /\ task_queue[1] = <<1, 2>>
    /\ current_group = <<3>>

\* The grouper with threads that keep running: a waiting Timer's time passes,
\* a Timer whose interval is over calls back, and a callback gets the mutex
\* and goes on to the put.
SpecGL ==
    /\ SpecG
    /\ WF_vars(Tick)
    /\ WF_vars(\E i \in Images : TimerFire(i))
    /\ WF_vars(\E i \in Images : SubmitLocked(i))
    /\ WF_vars(\E i \in Images : SubmitPut(i))

\* The tasks submitted so far: those put on the queue and those copied by a
\* callback that has not reached its put yet.
SubmittedTasks ==
    [k \in 1..Len(put_log) |-> put_log[k].group]
        \o [k \in 1..Cardinality({i \in Images : timers[i].st = "holding"}) |->
              timers[CHOOSE i \in Images :
                        /\ timers[i].st = "holding"
                        /\ Cardinality({j \in Images : timers[j].st = "holding" /\ j < i}) = k - 1
                    ].group]

\* The number of places of the sequence s that hold x.
Occurrences(s, x) == Cardinality({k \in 1..Len(s) : s[k] = x})

\* The images of s are in the order of their arrival.
InArrivalOrder(s) == \A h, k \in 1..Len(s) : h < k => s[h] < s[k]

\* Every image added is in the buffer or in one task, once in all.
InOnePlace ==
    \A x \in 1..added :
        Occurrences(current_group, x)
            + Cardinality({<<k, h>> \in (1..Len(SubmittedTasks)) \X (1..MaxImages) :
                              h <= Len(SubmittedTasks[k]) /\ SubmittedTasks[k][h] = x}) = 1

\* C30: every image passed to add_image is in exactly one place, the pending
\* buffer or one submitted task; buffer and tasks hold their images in
\* arrival order; while the buffer is not empty the current Timer is waiting
\* or its callback is pending; and every image added is eventually put on the
\* queue inside a task.
C30_EveryImageSubmittedOnce ==
    /\ [](/\ InOnePlace
          /\ InArrivalOrder(current_group)
          /\ \A k \in 1..Len(SubmittedTasks) : InArrivalOrder(SubmittedTasks[k])
          /\ current_group # <<>> => (timer # 0 /\ timers[timer].st \in {"armed", "fired"}))
    /\ \A x \in Images :
          (added >= x) ~> (\E k \in 1..Len(put_log) : Occurrences(put_log[k].group, x) = 1)

\* Three images were added and all are on the queue, in two tasks.
C30_Witness ==
    /\ added = 3 /\ current_group = <<>>
    /\ Len(put_log) = 2 /\ put_log[1].group = <<1>> /\ put_log[2].group = <<2, 3>>

\* ------------------------------------------------------------ failure handling

\* C31: an exception raised after the single-flight check is caught inside
\* the run: the FailureRecord gets the transcript the run had at that point
\* ("N/A" when it had none), the except clause ends with the run's
\* provisional path gone and nothing raised, and the failed run ends with
\* its marker removal and archive loop done.
C31_FailureCaughtAndCleaned ==
    [][\A w \in Workers :
        /\ (wk[w].pc = "fail_fill" /\ wk'[w].pc = "tmp_check") =>
              \E p \in DOMAIN outdir' :
                  /\ IsFailure(p)
                  /\ files'[outdir'[p]].body = <<[by |-> Run(w), ans |-> wk[w].text]>>
        /\ (wk[w].pc \in {"tmp_check", "tmp_unlink"} /\ wk'[w].pc = "lock_check") =>
              /\ TmpPath(w) \notin DOMAIN outdir'
              /\ wk'[w].exc = "none"
        /\ (wk[w].fails > 0 /\ wk[w].pc # "task_done" /\ wk'[w].pc = "task_done") =>
              /\ wk[w].pc = "archive"
              /\ wk'[w].exc = "none"]_vars

\* ------------------------------------------------------------ streaming persistence
\* The provisional file while _execute_pipeline consumes the solver's
\* stream.  The record is kept in sc:
\*   response_stream: the chunks the solver will yield
\*   final_answer_chunks: the chunks received so far
\*   f: what has been written to the provisional file
\*   pc: "read" while the stream is being consumed, then "written"

\* Longest stream examined, in chunks.
MaxStream == 3

\* What _write_solution_header has written when the stream is requested.
HeaderText == <<"hdr">>

\* final_answer_chunks = [chunk for chunk in response_stream], one turn: the
\* comprehension asks the stream for its next chunk and keeps it.
ReadChunk ==
    /\ sc.pc = "read"
    /\ Len(sc.final_answer_chunks) < Len(sc.response_stream)
    /\ sc' = [sc EXCEPT !.final_answer_chunks =
                            Append(@, sc.response_stream[Len(sc.final_answer_chunks) + 1])]
    /\ UNCHANGED <<corevars, tr, fn, mv, gc, xvars>>

\* The stream is exhausted: final_answer = "".join(final_answer_chunks);
\* f.write(final_answer)
WriteAnswer ==
    /\ sc.pc = "read"
    /\ Len(sc.final_answer_chunks) = Len(sc.response_stream)
    /\ sc' = [sc EXCEPT !.pc = "written", !.f = @ \o Join(sc.final_answer_chunks)]
    /\ UNCHANGED <<corevars, tr, fn, mv, gc, xvars>>

InitW ==
    /\ InitCore
    /\ sc \in {[pc |-> "read", response_stream |-> s, final_answer_chunks |-> <<>>, f |-> HeaderText] :
                  s \in UNION {[1..k -> ChunkTexts] : k \in 0..MaxStream}}
    /\ tr = <<>> /\ fn = <<>> /\ mv = <<>> /\ gc = <<>>
    /\ mn = <<>> /\ rt = <<>> /\ ty = <<>> /\ fm = <<>> /\ ag = <<>> /\ mt = <<>>

NextW == ReadChunk \/ WriteAnswer

SpecW == InitW /\ [][NextW]_vars

\* C32: while the answer streams the provisional file holds the header
\* followed by the chunks received so far, so after the k-th chunk is
\* received and before the next is asked for it holds the first k chunks.
C32_FileGrowsWithStream ==
    sc.f = HeaderText \o Join(sc.final_answer_chunks)

\* ------------------------------------------------------------ errors that are not retried
\* The value a client function returns when it gives a call up.
FailureValue ==
    CASE sc.fn = "stream_solve" -> SolverFailed
      [] sc.fn = "ask_for_analysis" -> Absent
      [] OTHER -> QwenFailed(sc.stream)

\* C33: a request that raises anything but a connectivity or timeout error
\* is the last request of its call: no sleep and no request follows it, and
\* the call has returned its failure value (the terminal error chunk, or
\* nothing); when it was the first request the call made exactly one request
\* and never slept.
C33_OtherErrorsEndTheCall ==
    \A k \in 1..Len(sc.log) :
        sc.log[k] = "other" =>
            /\ k = Len(sc.log) /\ sc.pc = "returned"
            /\ sc.attempts = k /\ sc.sleeps = k - 1
            /\ sc.ret = FailureValue

\* A streamed call of the vision client, allowed three retries, has made one
\* request, which raised such an error, and has returned the error chunk
\* without sleeping.
C33_Witness ==
    /\ sc.n = MAX_RETRIES /\ sc.log = <<"other">>
    /\ sc.fn = "_call_qwen_api" /\ sc.stream
    /\ sc.attempts = 1 /\ sc.sleeps = 0 /\ sc.ret = ErrorGenerator(QwenErrorChunk)

\* ------------------------------------------------------------ order of the steps
\* The place of each position of a run in the order of _execute_pipeline.
StepRank(pc) ==
    CASE pc = "check" -> 0
      [] pc = "touch" -> 1
      [] pc = "prepare" -> 2
      [] pc = "solve" -> 3
      [] pc = "rename" -> 4
      [] pc \in {"fail", "fail_fill", "tmp_check", "tmp_unlink"} -> 5
      [] pc \in {"lock_check", "lock_unlink"} -> 6
      [] pc = "archive" -> 7
      [] pc = "task_done" -> 8
      [] OTHER -> 9

\* C34: a run goes through its steps in the fixed order, marker creation,
\* classification and textualization, solve with validation and filename
\* synthesis, rename, cleanup, never back to an earlier one; it enters the
\* failure handling only from classification, textualization or solve, never
\* from the rename; and a run that created its marker ends by leaving the
\* archive loop, after which it only takes the next task.
C34_StepsInOrder ==
    [][\A w \in Workers :
        LET a == wk[w].pc
            b == wk'[w].pc
        IN  (a # b /\ a # "get") =>
                /\ IF a = "task_done" THEN b = "get" ELSE StepRank(a) <= StepRank(b)
                /\ b = "fail" => a \in {"prepare", "solve"}
                /\ (b = "task_done" /\ wk[w].passed) => a = "archive"]_vars

\* ------------------------------------------------------------ the solver invoked

\* C35: a run that reaches the solve step has made exactly one solver call:
\* the visual solve exactly when the classification is VISUAL_REASONING,
\* otherwise stream_solve with the provider of CODING_SOLVER for the final
\* types LEETCODE and ACM and of DEFAULT_SOLVER for every other type, with
\* that provider's model; the header names the provider and model invoked.
C35_OneSolverAsRouted ==
    (fn # <<>> /\ fn.op = "solve" /\ fn.pc = "solve") =>
        /\ Cardinality(fn.invoked) = 1
        /\ \A call \in fn.invoked :
            /\ call[1] = "solve_visual_reasoning_problem" <=> fn.type = "VISUAL_REASONING"
            /\ call[1] \in {"solve_visual_reasoning_problem", "stream_solve"}
            /\ call[1] = "stream_solve" =>
                 /\ call[2] = IF fn.ftype \in {"LEETCODE", "ACM"}
                              THEN fn.routing.CODING_SOLVER ELSE fn.routing.DEFAULT_SOLVER
                 /\ call[3] = ModelOf(call[2])
            /\ fn.header = <<call[2], call[3]>>

\* A CODING problem mentioning LeetCode went to the coding provider, which
\* is not the default provider, and the header names it.
C35_Witness ==
    /\ fn # <<>> /\ fn.op = "solve" /\ fn.pc = "solve"
    /\ fn.type = "CODING" /\ fn.ftype = "LEETCODE"
    /\ fn.routing = [CODING_SOLVER |-> "zhipu", DEFAULT_SOLVER |-> "deepseek"]
    /\ fn.invoked = {<<"stream_solve", "zhipu", ModelOf("zhipu")>>}
    /\ fn.header = <<"zhipu", ModelOf("zhipu")>>

\* ------------------------------------------------------------ isolation of the cleanup
\* The run of worker w is in its failure handling or its cleanup.
CleaningUp(w) ==
    wk[w].pc \in {"fail", "fail_fill", "tmp_check", "tmp_unlink", "lock_check", "lock_unlink", "archive"}
\* The run of worker v has created or touched its marker and not yet removed it.
HoldsMarker(v) ==
    wk[v].pc \in {"prepare", "solve", "rename", "fail", "fail_fill", "tmp_check", "tmp_unlink",
                  "lock_check", "lock_unlink"}
\* The run of worker v has opened its provisional file and not yet renamed it.
HoldsProvisional(v) == wk[v].pc \in {"solve", "rename"}

\* C36: a step of the failure handling or the cleanup of one run removes no
\* provisional file and no marker that another run in flight holds, and
\* moves only images of its own task, whatever the stems and extensions of
\* the first images of the two tasks.
C36_CleanupTouchesOwnOnly ==
    [][\A w \in Workers :
        (CleaningUp(w) /\ wk'[w] # wk[w]) =>
            /\ \A v \in Workers \ {w} :
                /\ (HoldsProvisional(v) /\ TmpPath(v) \in DOMAIN outdir) => TmpPath(v) \in DOMAIN outdir'
                /\ (HoldsMarker(v) /\ LockPath(v) \in DOMAIN locks) => LockPath(v) \in DOMAIN locks'
            /\ \A i \in monitored \ monitored' : \E k \in 1..Len(wk[w].task) : wk[w].task[k] = i]_vars

\* ------------------------------------------------------------ the archive loop

\* C37: when a run that passed the single-flight check has ended, a move
\* was attempted for every image of its task that was still there: each
\* image is out of the monitored directory or was given up after its last
\* attempt, the images moved carry the one timestamp of the run, and an
\* image given up did not keep the later ones from being tried.
C37_EveryImageArchiveAttempted ==
    \A w \in Workers :
        (wk[w].pc = "task_done" /\ wk[w].passed) =>
            \A k \in 1..Len(wk[w].task) :
                LET img == wk[w].task[k] IN
                    /\ img \in monitored => img \in wk[w].failed_moves
                    /\ \A a \in archive : a[1] = img => a[2] = wk[w].ts

\* ------------------------------------------------------------ capture threads

\* C38: at most one capture thread is running at any time, however the
\* tests and the setting of is_capturing by two triggers interleave.
C38_OneCaptureThread ==
    rt # <<>> => Cardinality(rt.captures) <= 1


\* The server and capture threads are scheduled: a thread that is started
\* runs, and a running capture reaches the end of take_screenshot_action.
SpecRL ==
    /\ SpecR
    /\ \A r \in Requests : WF_vars(TriggerStart(r)) /\ WF_vars(CaptureDone(r))

\* C39: every capture thread that was started ends having released the
\* guard, whether it saved its screenshot or failed; the guard is set only
\* while a capture thread is running or about to be started, and whenever
\* it is set it is released later, so a later trigger is accepted.
C39_GuardAlwaysReleased ==
    /\ \A r \in Requests :
        (r \in rt.captures) ~> (r \notin rt.captures /\ ~rt.is_capturing)
    /\ [](rt.is_capturing => (rt.captures # {} \/ \E r \in Requests : rt.req[r].pc = "start"))
    /\ rt.is_capturing ~> ~rt.is_capturing

\* A capture failed, the guard is released, and a later request has been
\* accepted and has started a capture of its own.
C39_Witness ==
    /\ rt # <<>>
    /\ \E r, q \in Requests :
        /\ r \in rt.started /\ r \notin rt.captures /\ r \notin rt.shots
        /\ q # r /\ q \in rt.captures /\ rt.req[q].status = 200
        /\ rt.captures = {q}
====
